---- MODULE Spec2Model ----
(***************************************************************************)
(* Online reinforcement-learning core of rsrl (QLearning, PAL, GreedyGQ,   *)
(* TOSARSALambda, TDAC, TDACLambda, BaselineREINFORCE, ExponentialTD,      *)
(* VarianceTD) as a state machine.  One learner is built in Init; every    *)
(* action is one call of the learner's public interface.                   *)
(*                                                                         *)
(* f64 values are modelled as exact rationals <<n, d>> in lowest terms     *)
(* with d > 0, so rounding is not modelled.                                *)
(***************************************************************************)
EXTENDS Integers, Sequences, FiniteSets, TLC

\* ------------------------------------------------------------------------
\* Bounds of the model
\* ------------------------------------------------------------------------

\* handle_transition calls (plus transitions inside batches and sequences)
\* made on the learner in one behaviour.
MaxSteps == 2

\* handle_terminal calls made on the learner in one behaviour.
MaxEpisodes == 1

\* Longest batch handed to handle_batch in one call.
MaxBatch == 3

\* Most update calls that return Err in one run.
MaxFaults == 1

\* Steps of a short episode of the market-making environment: dt is
\* 1 / ShortEpisode.
ShortEpisode == 2

\* Steps of a long episode, enough for the inventory to reach its bounds.
LongEpisode == 52

\* ------------------------------------------------------------------------
\* f64 as exact rationals
\* ------------------------------------------------------------------------

Abs(i) == IF i < 0 THEN -i ELSE i

RECURSIVE GCD(_, _)
GCD(a, b) == IF b = 0 THEN a ELSE GCD(b, a % b)

Frac(n, d) ==
    LET s == IF d < 0 THEN -1 ELSE 1
        g == GCD(Abs(n), Abs(d))
    IN  <<(s * n) \div g, (s * d) \div g>>

R(i) == <<i, 1>>

\* Sums go through the least common denominator and products cancel across
\* before multiplying, so that intermediate values stay small.
RAdd(x, y) ==
    LET g == GCD(x[2], y[2])
    IN  Frac(x[1] * (y[2] \div g) + y[1] * (x[2] \div g), (x[2] \div g) * y[2])
RNeg(x) == <<-x[1], x[2]>>
RSub(x, y) == RAdd(x, RNeg(y))
RMul(x, y) ==
    LET g1 == GCD(Abs(x[1]), y[2])
        g2 == GCD(Abs(y[1]), x[2])
    IN  Frac((x[1] \div g1) * (y[1] \div g2), (x[2] \div g2) * (y[2] \div g1))
RDiv(x, y) == RMul(x, Frac(y[2], y[1]))
RLt(x, y) == RSub(x, y)[1] < 0
RLe(x, y) == RSub(x, y)[1] <= 0
RAbs(x) == <<Abs(x[1]), x[2]>>
RMax(x, y) == IF RLt(x, y) THEN y ELSE x

\* x < 1/k for an integer k > 0.
RBelowInv(x, k) == x[1] <= 0 \/ x[1] <= (x[2] - 1) \div k

RECURSIVE RPow(_, _)
RPow(x, k) == IF k = 0 THEN R(1) ELSE RMul(x, RPow(x, k - 1))

\* exp() on f64, as its second-order Taylor polynomial 1 + x + x^2/2, which
\* is exact at 0 and positive everywhere.
RExp(x) == RAdd(R(1), RAdd(x, RMul(Frac(1, 2), RMul(x, x))))

\* ------------------------------------------------------------------------
\* Dense vectors over a two-dimensional feature space
\* ------------------------------------------------------------------------

Vec(a, b) == <<a, b>>

Zeros == Vec(R(0), R(0))

Dot(u, v) == RAdd(RMul(u[1], v[1]), RMul(u[2], v[2]))
Scale(c, v) == Vec(RMul(c, v[1]), RMul(c, v[2]))
VAdd(u, v) == Vec(RAdd(u[1], v[1]), RAdd(u[2], v[2]))
VSub(u, v) == Vec(RSub(u[1], v[1]), RSub(u[2], v[2]))

\* ------------------------------------------------------------------------
\* Observation and Transition (domains/mod.rs)
\* ------------------------------------------------------------------------

States == {0, 1}
Actions == {1, 2}
Rewards == {R(1)}

Observation(tag, s) == [tag |-> tag, state |-> s]

Observation_state(o) == o.state

Observation_is_terminal(o) == o.tag = "Terminal"

Transition(from, a, r, to) == [from |-> from, action |-> a, reward |-> r, to |-> to]

Transition_terminated(t) == Observation_is_terminal(t.to)

\* Variant: the negated magnitude of the reward.
Transition_negate_reward_of_magnitude(t) ==
    [from |-> t.from, action |-> t.action, reward |-> RNeg(RAbs(t.reward)), to |-> t.to]

Transition_replace_action(t, action) ==
    [from |-> t.from, action |-> action, reward |-> t.reward, to |-> t.to]

\* The unit action () is the empty tuple.
Transition_drop_action(t) == Transition_replace_action(t, <<>>)

Transition_replace_reward(t, r) ==
    [from |-> t.from, action |-> t.action, reward |-> r, to |-> t.to]

Transition_negate_reward(t) ==
    [from |-> t.from, action |-> t.action, reward |-> RNeg(t.reward), to |-> t.to]

NoTransition == Transition(Observation("Full", 0), 1, R(0), Observation("Full", 0))

\* ------------------------------------------------------------------------
\* Parameter: a value with an annealing schedule
\* ------------------------------------------------------------------------

Parameter_fixed(v) ==
    [kind |-> "Fixed", init |-> v, floor |-> v, decay |-> R(1), count |-> 0]

Parameter_exponential(init, floor, decay) ==
    [kind |-> "Exponential", init |-> init, floor |-> floor, decay |-> decay, count |-> 0]

Parameter_value(p) ==
    IF p.kind = "Fixed" THEN p.init
    ELSE RMax(RMul(p.init, RPow(p.decay, p.count)), p.floor)

Parameter_step(p) ==
    IF p.kind = "Fixed" THEN p
    ELSE [p EXCEPT !.count = p.count + 1]

\* ------------------------------------------------------------------------
\* Linear function approximators: embed / evaluate / update
\* ------------------------------------------------------------------------

\* Basis: state 0 activates feature 1 only, state 1 activates both features.
embed(s) == IF s = 1 THEN Vec(R(1), R(1)) ELSE Vec(R(1), R(0))

\* Scalar approximator (VFunction), weights w: one f64 per feature.
V_evaluate(w, phi) == Dot(w, phi)

V_update(w, phi, error) == VAdd(w, Scale(error, phi))

\* Vector approximator (QFunction), weights q: one weight vector per action.
Q_evaluate(q, phi) == <<Dot(q[1], phi), Dot(q[2], phi)>>

Q_evaluate_index(q, phi, a) == Dot(q[a], phi)

Q_update_index(q, phi, a, error) == [q EXCEPT ![a] = VAdd(q[a], Scale(error, phi))]

\* ------------------------------------------------------------------------
\* sub2ind (utils.rs)
\* ------------------------------------------------------------------------

\* Largest extent of a dimension, and the shape of the unit test.
MaxDim == 3
TestDims == <<5, 7, 12>>

\* The fold over d_it.zip(i_it): both slices reversed with their last
\* element skipped; the j-th pair is (dims[Len(dims) - j], inds[Len(inds) - j])
\* and the zip ends with the shorter side.
RECURSIVE sub2ind_fold(_, _, _, _)
sub2ind_fold(dims, inds, j, acc) ==
    IF j >= Len(dims) \/ j >= Len(inds) THEN acc
    ELSE sub2ind_fold(dims, inds, j + 1,
                      inds[Len(inds) - j] + dims[Len(dims) - j] * acc)

\* Variant: row-major, the first index varying slowest.
RECURSIVE sub2ind_row_major(_, _)
sub2ind_row_major(dims, inds) ==
    IF Len(inds) = 1 THEN inds[1]
    ELSE inds[Len(inds)]
         + dims[Len(dims)] * sub2ind_row_major(SubSeq(dims, 1, Len(dims) - 1),
                                               SubSeq(inds, 1, Len(inds) - 1))

\* inds.last().cloned().unwrap() seeds the fold; inds is not empty.
sub2ind(dims, inds) == sub2ind_fold(dims, inds, 1, inds[Len(inds)])

\* ------------------------------------------------------------------------
\* argmaxima (utils.rs) and the Greedy policy over a shared Q-function
\* ------------------------------------------------------------------------

\* The tolerance 1e-7 of argmaxima, as its inverse.
ArgmaxTolInv == 10000000

\* The loop of argmaxima over vals[i], i = 1..n; acc.min is TRUE while max
\* still holds f64::MIN, which no value is within 1e-7 of nor below.
RECURSIVE argmaxima_loop(_, _, _)
argmaxima_loop(vals, i, acc) ==
    IF i > Len(vals) THEN acc
    ELSE LET v == vals[i] IN
         IF ~acc.min /\ RBelowInv(RAbs(RSub(v, acc.max)), ArgmaxTolInv)
         THEN argmaxima_loop(vals, i + 1, [acc EXCEPT !.ixs = Append(acc.ixs, i)])
         ELSE IF acc.min \/ RLt(acc.max, v)
         THEN argmaxima_loop(vals, i + 1, [min |-> FALSE, max |-> v, ixs |-> <<i>>])
         ELSE argmaxima_loop(vals, i + 1, acc)

argmaxima(vals) == argmaxima_loop(vals, 1, [min |-> TRUE, max |-> R(0), ixs |-> <<>>])

\* Greedy<Q>::sample: a maximising action of the Q-function the policy
\* holds a handle to.  Which of several maxima is returned is left open.
Greedy_sample(cells, greedy, s) ==
    LET ixs == argmaxima(Q_evaluate(cells[greedy.q], embed(s))).ixs
    IN  {ixs[k] : k \in 1..Len(ixs)}

\* A sub-algorithm's handle_terminal: the callee counts the calls it got.
Sub_handle_terminal(p) == [p EXCEPT !.terminals = @ + 1]

\* ------------------------------------------------------------------------
\* QLearning (control/td/q_learning.rs)
\* ------------------------------------------------------------------------

\* make_shared(q_func) puts the approximator in one cell; q_func.clone()
\* and Greedy::new(q_func) are two handles to that cell.
\* Variant: the greedy target is built over a copy of the approximator
\* instead of a clone of the shared handle.
QLearning_new_with_copied_target(q_func, alpha, gamma) ==
    [kind |-> "QLearning",
     cells |-> <<q_func, q_func>>,
     q_func |-> 1,
     policy |-> [terminals |-> 0],
     target |-> [q |-> 2, terminals |-> 0],
     alpha |-> alpha,
     gamma |-> gamma]

QLearning_new(q_func, alpha, gamma) ==
    [kind |-> "QLearning",
     cells |-> <<q_func>>,
     q_func |-> 1,
     policy |-> [terminals |-> 0],
     target |-> [q |-> 1, terminals |-> 0],
     alpha |-> alpha,
     gamma |-> gamma]

QLearning_handle_terminal(self) ==
    [self EXCEPT !.alpha = Parameter_step(self.alpha),
                 !.gamma = Parameter_step(self.gamma),
                 !.policy = Sub_handle_terminal(self.policy)]

QLearning_predict_qs(self, s) == Q_evaluate(self.cells[self.q_func], embed(s))

QLearning_predict_qsa(self, s, a) == Q_evaluate_index(self.cells[self.q_func], embed(s), a)

QLearning_sample_target(self, s) == Greedy_sample(self.cells, self.target, s)

\* QLearning_residual without its t.terminated() branch: the bootstrapped
\* term is added on every transition.
QLearning_residual_always_bootstrapped(self, t, na) ==
    LET s == Observation_state(t.from)
        qsa == QLearning_predict_qsa(self, s, t.action)
        nqsna == QLearning_predict_qsa(self, Observation_state(t.to), na)
    IN  RSub(RAdd(t.reward, RMul(Parameter_value(self.gamma), nqsna)), qsa)

\* na is the value sample_target(ns) returned (read on the non-terminal
\* branch only).
QLearning_residual(self, t, na) ==
    LET s == Observation_state(t.from)
        qsa == QLearning_predict_qsa(self, s, t.action)
    IN  IF Transition_terminated(t)
        THEN RSub(t.reward, qsa)
        ELSE LET ns == Observation_state(t.to)
                 nqsna == QLearning_predict_qsa(self, ns, na)
             IN  RSub(RAdd(t.reward, RMul(Parameter_value(self.gamma), nqsna)), qsa)

\* QLearning_handle_transition that also anneals alpha on every transition.
QLearning_handle_transition_annealing(self, t, na) ==
    [self EXCEPT !.alpha = Parameter_step(self.alpha),
                 !.cells[self.q_func] =
                    Q_update_index(@, embed(Observation_state(t.from)), t.action,
                        RMul(Parameter_value(self.alpha), QLearning_residual(self, t, na)))]

QLearning_handle_transition(self, t, na) ==
    LET s == Observation_state(t.from)
        residual == QLearning_residual(self, t, na)
    IN  [self EXCEPT !.cells[self.q_func] =
            Q_update_index(@, embed(s), t.action,
                           RMul(Parameter_value(self.alpha), residual))]

\* ------------------------------------------------------------------------
\* PAL (control/td/pal.rs)
\* ------------------------------------------------------------------------

PAL_new(q_func, alpha, gamma) ==
    [kind |-> "PAL",
     cells |-> <<q_func>>,
     q_func |-> 1,
     policy |-> [terminals |-> 0],
     target |-> [q |-> 1, terminals |-> 0],
     alpha |-> alpha,
     gamma |-> gamma]

PAL_handle_terminal(self) ==
    [self EXCEPT !.alpha = Parameter_step(self.alpha),
                 !.gamma = Parameter_step(self.gamma),
                 !.policy = Sub_handle_terminal(self.policy),
                 !.target = Sub_handle_terminal(self.target)]

PAL_predict_qs(self, s) == Q_evaluate(self.cells[self.q_func], embed(s))

PAL_sample_target(self, s) == Greedy_sample(self.cells, self.target, s)

\* The errors of the non-terminal branch; a_star = sample_target(s) and
\* na_star = sample_target(ns).
PAL_td_error(self, t, a_star) ==
    LET qs == Q_evaluate(self.cells[self.q_func], embed(Observation_state(t.from)))
        nqs == PAL_predict_qs(self, Observation_state(t.to))
    IN  RSub(RAdd(t.reward, RMul(Parameter_value(self.gamma), nqs[a_star])), qs[t.action])

PAL_al_error(self, t, a_star) ==
    LET qs == Q_evaluate(self.cells[self.q_func], embed(Observation_state(t.from)))
    IN  RSub(PAL_td_error(self, t, a_star),
             RMul(Parameter_value(self.alpha), RSub(qs[a_star], qs[t.action])))

PAL_residual(self, t, a_star, na_star) ==
    LET qs == Q_evaluate(self.cells[self.q_func], embed(Observation_state(t.from)))
    IN  IF Transition_terminated(t)
        THEN RSub(t.reward, qs[t.action])
        ELSE LET nqs == PAL_predict_qs(self, Observation_state(t.to))
                 td_error == PAL_td_error(self, t, a_star)
                 al_error == PAL_al_error(self, t, a_star)
             IN  RMax(al_error,
                      RSub(td_error, RMul(Parameter_value(self.alpha),
                                          RSub(nqs[na_star], nqs[t.action]))))

PAL_handle_transition(self, t, a_star, na_star) ==
    LET phi_s == embed(Observation_state(t.from))
        residual == PAL_residual(self, t, a_star, na_star)
    IN  [self EXCEPT !.cells[self.q_func] =
            Q_update_index(@, phi_s, t.action,
                           RMul(Parameter_value(self.alpha), residual))]

\* ------------------------------------------------------------------------
\* GreedyGQ (control/gtd/greedy_gq.rs)
\* ------------------------------------------------------------------------

GreedyGQ_new(fa_q, fa_w, alpha, beta, gamma) ==
    [kind |-> "GreedyGQ",
     cells |-> <<fa_q>>,
     fa_q |-> 1,
     fa_w |-> fa_w,
     target_policy |-> [q |-> 1, terminals |-> 0],
     behaviour_policy |-> [terminals |-> 0],
     alpha |-> alpha,
     beta |-> beta,
     gamma |-> gamma]

GreedyGQ_handle_terminal(self) ==
    [self EXCEPT !.alpha = Parameter_step(self.alpha),
                 !.beta = Parameter_step(self.beta),
                 !.gamma = Parameter_step(self.gamma)]

GreedyGQ_sample_target(self, s) == Greedy_sample(self.cells, self.target_policy, s)

\* na is the value sample_target(ns) returned (non-terminal branch only).
GreedyGQ_residual(self, t, na) ==
    LET phi_s == embed(Observation_state(t.from))
        fa_q == self.cells[self.fa_q]
    IN  IF Transition_terminated(t)
        THEN RSub(t.reward, Q_evaluate_index(fa_q, phi_s, t.action))
        ELSE LET phi_ns == embed(Observation_state(t.to))
             IN  RSub(RAdd(t.reward,
                           RMul(Parameter_value(self.gamma),
                                Q_evaluate_index(fa_q, phi_ns, na))),
                      Q_evaluate_index(fa_q, phi_s, t.action))

\* GreedyGQ_handle_transition with the primary update scaled by
\* alpha * beta instead of alpha.
GreedyGQ_handle_transition_beta_on_primary(self, t, na) ==
    LET phi_s == embed(Observation_state(t.from))
        estimate == V_evaluate(self.fa_w, phi_s)
        residual == GreedyGQ_residual(self, t, na)
        alpha == Parameter_value(self.alpha)
        beta == Parameter_value(self.beta)
        gamma == Parameter_value(self.gamma)
        update_q == IF Transition_terminated(t) THEN Scale(residual, phi_s)
                    ELSE VSub(Scale(residual, phi_s),
                              Scale(RMul(estimate, gamma),
                                    embed(Observation_state(t.to))))
    IN  [self EXCEPT
            !.fa_w = V_update(@, phi_s, RMul(RMul(alpha, beta), RSub(residual, estimate))),
            !.cells[self.fa_q] = Q_update_index(@, update_q, t.action, RMul(alpha, beta))]

GreedyGQ_handle_transition(self, t, na) ==
    LET phi_s == embed(Observation_state(t.from))
        estimate == V_evaluate(self.fa_w, phi_s)
        residual == GreedyGQ_residual(self, t, na)
        alpha == Parameter_value(self.alpha)
        beta == Parameter_value(self.beta)
        gamma == Parameter_value(self.gamma)
        w_error == RMul(RMul(alpha, beta), RSub(residual, estimate))
    IN  IF Transition_terminated(t)
        THEN [self EXCEPT
                !.fa_w = V_update(@, phi_s, w_error),
                !.cells[self.fa_q] =
                    Q_update_index(@, phi_s, t.action, RMul(alpha, residual))]
        ELSE LET phi_ns == embed(Observation_state(t.to))
                 update_q == VSub(Scale(residual, phi_s),
                                  Scale(RMul(estimate, gamma), phi_ns))
             IN  [self EXCEPT
                    !.fa_w = V_update(@, phi_s, w_error),
                    !.cells[self.fa_q] = Q_update_index(@, update_q, t.action, alpha)]

\* ------------------------------------------------------------------------
\* Trace: an eligibility vector with its decay Parameter lambda
\* ------------------------------------------------------------------------

Trace_accumulating(lambda) == [lambda |-> lambda, eligibility |-> Zeros]

Trace_get(trace) == trace.eligibility

Trace_decay(trace, rate) == [trace EXCEPT !.eligibility = Scale(rate, @)]

Trace_update(trace, phi) == [trace EXCEPT !.eligibility = VAdd(@, phi)]

\* ------------------------------------------------------------------------
\* TOSARSALambda (control/totd/to_sarsa_lambda.rs)
\* ------------------------------------------------------------------------

TOSARSALambda_new(q_func, trace, alpha, gamma) ==
    [kind |-> "TOSARSALambda",
     q_func |-> q_func,
     policy |-> [terminals |-> 0],
     alpha |-> alpha,
     gamma |-> gamma,
     trace |-> trace,
     q_old |-> R(0)]

\* update_traces with trace.decay() moved before the dot product, which
\* then reads the decayed trace.
TOSARSALambda_update_traces_decay_first(self, phi, decay_rate) ==
    LET decayed == Trace_decay(self.trace, decay_rate)
        trace_update ==
            Scale(RSub(R(1), RMul(RMul(Parameter_value(self.alpha), decay_rate),
                                  Dot(Trace_get(decayed), phi))),
                  phi)
    IN  [self EXCEPT !.trace = Trace_update(decayed, trace_update)]

TOSARSALambda_update_traces(self, phi, decay_rate) ==
    LET trace_update ==
            Scale(RSub(R(1), RMul(RMul(Parameter_value(self.alpha), decay_rate),
                                  Dot(Trace_get(self.trace), phi))),
                  phi)
    IN  [self EXCEPT !.trace = Trace_update(Trace_decay(@, decay_rate), trace_update)]

TOSARSALambda_handle_terminal(self) ==
    [self EXCEPT !.alpha = Parameter_step(self.alpha),
                 !.gamma = Parameter_step(self.gamma)]

\* q_old here is the field's value when the handler is entered; na is the
\* value sample_behaviour(ns) returned (non-terminal branch only).
TOSARSALambda_residual(self, t, na) ==
    IF Transition_terminated(t)
    THEN RSub(t.reward, self.q_old)
    ELSE LET nqsna == Q_evaluate_index(self.q_func, embed(Observation_state(t.to)), na)
         IN  RSub(RAdd(t.reward, RMul(Parameter_value(self.gamma), nqsna)), self.q_old)

\* Variant: Q(s,a) of the correction is read after the first weight update.
TOSARSALambda_handle_transition_reading_qsa_late(self, t, na) ==
    LET phi_s == embed(Observation_state(t.from))
        decay_rate == RMul(Parameter_value(self.trace.lambda), Parameter_value(self.gamma))
        traced == TOSARSALambda_update_traces(self, phi_s, decay_rate)
        z == Trace_get(traced.trace)
        q_old == self.q_old
        residual == TOSARSALambda_residual(self, t, na)
        alpha == Parameter_value(self.alpha)
        first == Q_update_index(self.q_func, z, t.action, RMul(alpha, residual))
        qsa == Q_evaluate_index(first, phi_s, t.action)
        branch ==
            IF Transition_terminated(t)
            THEN [traced EXCEPT !.q_old = R(0), !.trace = Trace_decay(@, R(0))]
            ELSE [traced EXCEPT !.q_old =
                    Q_evaluate_index(self.q_func, embed(Observation_state(t.to)), na)]
    IN  [branch EXCEPT !.q_func =
            Q_update_index(first, phi_s, t.action, RMul(alpha, RSub(q_old, qsa)))]

TOSARSALambda_handle_transition(self, t, na) ==
    LET phi_s == embed(Observation_state(t.from))
        decay_rate == RMul(Parameter_value(self.trace.lambda), Parameter_value(self.gamma))
        traced == TOSARSALambda_update_traces(self, phi_s, decay_rate)
        z == Trace_get(traced.trace)
        qsa == Q_evaluate_index(self.q_func, phi_s, t.action)
        q_old == self.q_old
        residual == TOSARSALambda_residual(self, t, na)
        alpha == Parameter_value(self.alpha)
        branch ==
            IF Transition_terminated(t)
            THEN [traced EXCEPT !.q_old = R(0), !.trace = Trace_decay(@, R(0))]
            ELSE [traced EXCEPT !.q_old =
                    Q_evaluate_index(self.q_func, embed(Observation_state(t.to)), na)]
    IN  [branch EXCEPT !.q_func =
            Q_update_index(Q_update_index(@, z, t.action, RMul(alpha, residual)),
                           phi_s, t.action, RMul(alpha, RSub(q_old, qsa)))]

\* ------------------------------------------------------------------------
\* Collaborators of the actor-critic learners: a TD(0) critic and a
\* differentiable policy with linear parameters
\* ------------------------------------------------------------------------

TD_new(v_func, alpha, gamma) ==
    [v_func |-> v_func, alpha |-> alpha, gamma |-> gamma, terminals |-> 0]

TD_predict_v(self, s) == V_evaluate(self.v_func, embed(s))

TD_handle_transition(self, t) ==
    LET phi_s == embed(Observation_state(t.from))
        v == V_evaluate(self.v_func, phi_s)
        td_error ==
            IF Transition_terminated(t)
            THEN RSub(t.reward, v)
            ELSE RSub(RAdd(t.reward,
                           RMul(Parameter_value(self.gamma),
                                TD_predict_v(self, Observation_state(t.to)))), v)
    IN  [self EXCEPT !.v_func = V_update(@, phi_s, RMul(Parameter_value(self.alpha), td_error))]

RECURSIVE TD_handle_batch(_, _)
TD_handle_batch(self, batch) ==
    IF batch = <<>> THEN self
    ELSE TD_handle_batch(TD_handle_transition(self, Head(batch)), Tail(batch))

TD_handle_terminal(self) ==
    [self EXCEPT !.alpha = Parameter_step(self.alpha),
                 !.gamma = Parameter_step(self.gamma),
                 !.terminals = @ + 1]

\* kind names the policy type: "Policy" implements every method of
\* ParameterisedPolicy and DifferentiablePolicy.
Policy_new(theta) == [kind |-> "Policy", theta |-> theta, terminals |-> 0]

\* Dirac::new(fa), Beta::new(alpha, beta), Gamma::new(alpha, beta): theta
\* holds the weights of the policy's approximators.
Dirac_new(fa) == [kind |-> "Dirac", theta |-> fa, terminals |-> 0]

Beta_new(theta) == [kind |-> "Beta", theta |-> theta, terminals |-> 0]

Gamma_new(theta) == [kind |-> "Gamma", theta |-> theta, terminals |-> 0]

\* grad log pi(a | s) of a unit-variance policy with mean theta . phi(s).
Policy_grad_log(self, s, a) ==
    Scale(RSub(R(a), Dot(self.theta, embed(s))), embed(s))

Policy_update(self, s, a, error) ==
    [self EXCEPT !.theta = VAdd(@, Scale(error, Policy_grad_log(self, s, a)))]

Policy_update_raw(self, errors) == [self EXCEPT !.theta = VAdd(@, errors)]

\* ------------------------------------------------------------------------
\* TDAC and TDACLambda (control/actor_critic/tdac.rs)
\* ------------------------------------------------------------------------

TDAC_new(critic, policy, alpha, gamma) ==
    [kind |-> "TDAC", critic |-> critic, policy |-> policy,
     alpha |-> alpha, gamma |-> gamma]

TDAC_handle_terminal(self) ==
    [self EXCEPT !.alpha = Parameter_step(self.alpha),
                 !.gamma = Parameter_step(self.gamma),
                 !.critic = TD_handle_terminal(self.critic),
                 !.policy = Sub_handle_terminal(self.policy)]

TDAC_predict_v(self, s) == TD_predict_v(self.critic, s)

TDAC_td_error(self, t) ==
    LET v == TD_predict_v(self.critic, Observation_state(t.from))
    IN  IF Transition_terminated(t)
        THEN RSub(t.reward, v)
        ELSE RSub(RAdd(t.reward,
                       RMul(Parameter_value(self.gamma),
                            TDAC_predict_v(self, Observation_state(t.to)))), v)

\* Variant: the critic handles the transition before the TD error is
\* computed from it.
TDAC_handle_transition_critic_first(self, t) ==
    LET s == Observation_state(t.from)
        after == [self EXCEPT !.critic = TD_handle_transition(@, t)]
        td_error == TDAC_td_error(after, t)
    IN  [after EXCEPT
            !.policy = Policy_update(@, s, t.action,
                                     RMul(Parameter_value(self.alpha), td_error))]

TDAC_handle_transition(self, t) ==
    LET s == Observation_state(t.from)
        td_error == TDAC_td_error(self, t)
    IN  [self EXCEPT
            !.critic = TD_handle_transition(@, t),
            !.policy = Policy_update(@, s, t.action,
                                     RMul(Parameter_value(self.alpha), td_error))]

TDACLambda_new(critic, policy, alpha, gamma, lambda) ==
    [kind |-> "TDACLambda", critic |-> critic, policy |-> policy,
     trace |-> Zeros,
     alpha |-> alpha, gamma |-> gamma, lambda |-> lambda]

\* self.lambda = self.gamma.step() reads the gamma assigned one line above.
TDACLambda_handle_terminal(self) ==
    LET gamma == Parameter_step(self.gamma)
    IN  [self EXCEPT !.alpha = Parameter_step(self.alpha),
                     !.gamma = gamma,
                     !.lambda = Parameter_step(gamma),
                     !.trace = Zeros,
                     !.critic = TD_handle_terminal(self.critic),
                     !.policy = Sub_handle_terminal(self.policy)]

TDACLambda_td_error(self, t) ==
    LET v == TD_predict_v(self.critic, Observation_state(t.from))
    IN  IF Transition_terminated(t)
        THEN RSub(t.reward, v)
        ELSE RSub(RAdd(t.reward,
                       RMul(Parameter_value(self.gamma),
                            TD_predict_v(self.critic, Observation_state(t.to)))), v)

TDACLambda_handle_transition(self, t) ==
    LET s == Observation_state(t.from)
        td_error == TDACLambda_td_error(self, t)
        gl_policy == Policy_grad_log(self.policy, s, t.action)
        trace == VAdd(Scale(RMul(Parameter_value(self.gamma),
                                 Parameter_value(self.lambda)), self.trace),
                      gl_policy)
    IN  [self EXCEPT
            !.trace = trace,
            !.critic = TD_handle_transition(@, t),
            !.policy = Policy_update_raw(@,
                Scale(RMul(Parameter_value(self.alpha), td_error), trace))]

\* ------------------------------------------------------------------------
\* BaselineREINFORCE (control/mc/baseline_reinforce.rs)
\* ------------------------------------------------------------------------

BaselineREINFORCE_new(policy, baseline, alpha, gamma) ==
    [kind |-> "BaselineREINFORCE", policy |-> policy, baseline |-> baseline,
     alpha |-> alpha, gamma |-> gamma]

BaselineREINFORCE_handle_terminal(self) ==
    [self EXCEPT !.alpha = Parameter_step(self.alpha),
                 !.gamma = Parameter_step(self.gamma),
                 !.policy = Sub_handle_terminal(self.policy),
                 !.baseline = TD_handle_terminal(self.baseline)]

\* The baseline's predict_qsa is the trait default: predict_v(s).
Baseline_predict_qsa(baseline, s, a) == TD_predict_v(baseline, s)

\* Variant: the return is not accumulated, each update sees its own reward.
RECURSIVE BaselineREINFORCE_rev_loop_no_accumulation(_, _, _)
BaselineREINFORCE_rev_loop_no_accumulation(acc, batch, i) ==
    IF i = 0 THEN acc
    ELSE LET t == batch[i]
             s == Observation_state(t.from)
             baseline == Baseline_predict_qsa(acc.self.baseline, s, t.action)
             ret == t.reward
             self == [acc.self EXCEPT !.policy =
                        Policy_update(@, s, t.action,
                            RMul(Parameter_value(acc.self.alpha), RSub(ret, baseline)))]
         IN  BaselineREINFORCE_rev_loop_no_accumulation(
                [self |-> self, ret |-> ret, rets |-> Append(acc.rets, ret)],
                batch, i - 1)

\* The loop `for t in batch.into_iter().rev()` from index i down to 1;
\* acc = [self, ret, rets], rets listing ret at each policy update.
RECURSIVE BaselineREINFORCE_rev_loop(_, _, _)
BaselineREINFORCE_rev_loop(acc, batch, i) ==
    IF i = 0 THEN acc
    ELSE LET t == batch[i]
             s == Observation_state(t.from)
             baseline == Baseline_predict_qsa(acc.self.baseline, s, t.action)
             ret == RAdd(t.reward, RMul(Parameter_value(acc.self.gamma), acc.ret))
             self == [acc.self EXCEPT !.policy =
                        Policy_update(@, s, t.action,
                            RMul(Parameter_value(acc.self.alpha), RSub(ret, baseline)))]
         IN  BaselineREINFORCE_rev_loop(
                [self |-> self, ret |-> ret, rets |-> Append(acc.rets, ret)],
                batch, i - 1)

\* Variant: the policy updates read the baseline as it was before the batch,
\* and the baseline consumes the batch afterwards.
BaselineREINFORCE_handle_batch_run_stale_baseline(self, batch) ==
    LET run == BaselineREINFORCE_rev_loop(
                   [self |-> self, ret |-> R(0), rets |-> <<>>], batch, Len(batch))
    IN  [run EXCEPT !.self.baseline = TD_handle_batch(@, batch)]

BaselineREINFORCE_handle_batch_run(self, batch) ==
    BaselineREINFORCE_rev_loop(
        [self |-> [self EXCEPT !.baseline = TD_handle_batch(@, batch)],
         ret |-> R(0), rets |-> <<>>],
        batch, Len(batch))

BaselineREINFORCE_handle_batch(self, batch) ==
    BaselineREINFORCE_handle_batch_run(self, batch).self

\* ------------------------------------------------------------------------
\* ExponentialTD (prediction/td/td_exp.rs)
\* ------------------------------------------------------------------------

\* The threshold 1e-5 on |v_ss|, as its inverse.
ExpTolInv == 100000

ExponentialTD_new(v_func, start_state, alpha, rho) ==
    [kind |-> "ExponentialTD", v_func |-> v_func, start_state |-> start_state,
     alpha |-> alpha, rho |-> rho]

ExponentialTD_handle_terminal(self) ==
    [self EXCEPT !.alpha = Parameter_step(self.alpha),
                 !.rho = Parameter_step(self.rho)]

ExponentialTD_predict_v(self, s) == V_evaluate(self.v_func, embed(s))

ExponentialTD_td_error(self, t) ==
    LET v_s == V_evaluate(self.v_func, embed(Observation_state(t.from)))
        v_ns == V_evaluate(self.v_func, embed(Observation_state(t.to)))
        v_ss == V_evaluate(self.v_func, embed(self.start_state))
        exp_rr == RExp(RMul(Parameter_value(self.rho), t.reward))
    IN  IF RBelowInv(RAbs(v_ss), ExpTolInv)
        THEN RSub(RMul(exp_rr, v_ns), v_s)
        ELSE RSub(RMul(RDiv(exp_rr, v_ss), v_ns), v_s)

ExponentialTD_handle_transition(self, t) ==
    LET phi_s == embed(Observation_state(t.from))
    IN  [self EXCEPT !.v_func =
            V_update(@, phi_s, RMul(Parameter_value(self.alpha),
                                    ExponentialTD_td_error(self, t)))]

\* ------------------------------------------------------------------------
\* VarianceTD (prediction/td/td_var.rs)
\* ------------------------------------------------------------------------

VarianceTD_new(value_estimator, variance_estimator, alpha, gamma) ==
    [kind |-> "VarianceTD", value_estimator |-> value_estimator,
     variance_estimator |-> variance_estimator,
     alpha |-> alpha, gamma |-> gamma]

VarianceTD_compute_value_error(self, s, reward, ns) ==
    RSub(RAdd(reward, V_evaluate(self.value_estimator, embed(ns))),
         V_evaluate(self.value_estimator, embed(s)))

VarianceTD_handle_terminal(self) ==
    [self EXCEPT !.alpha = Parameter_step(self.alpha),
                 !.gamma = Parameter_step(self.gamma)]

VarianceTD_predict_v(self, s) == V_evaluate(self.variance_estimator, embed(s))

VarianceTD_meta_reward(self, t) ==
    LET value_error == VarianceTD_compute_value_error(
                           self, Observation_state(t.from), t.reward,
                           Observation_state(t.to))
    IN  RMul(value_error, value_error)

VarianceTD_td_error(self, t) ==
    LET meta_reward == VarianceTD_meta_reward(self, t)
        v == V_evaluate(self.variance_estimator, embed(Observation_state(t.from)))
    IN  IF Transition_terminated(t)
        THEN RSub(meta_reward, v)
        ELSE LET gamma_var == RMul(Parameter_value(self.gamma), Parameter_value(self.gamma))
             IN  RSub(RAdd(meta_reward,
                           RMul(gamma_var,
                                VarianceTD_predict_v(self, Observation_state(t.to)))), v)

VarianceTD_handle_transition(self, t) ==
    LET phi_s == embed(Observation_state(t.from))
    IN  [self EXCEPT !.variance_estimator =
            V_update(@, phi_s, RMul(Parameter_value(self.alpha),
                                    VarianceTD_td_error(self, t)))]

\* ------------------------------------------------------------------------
\* Trait dispatch: Algorithm, OnlineLearner, Shared<T>
\* ------------------------------------------------------------------------

OnlineKinds == {"QLearning", "PAL", "GreedyGQ", "TOSARSALambda", "TDAC",
                "TDACLambda", "ExponentialTD", "VarianceTD"}

\* The values the samplers return inside one handle_transition call:
\* na for sample_target(ns) / sample_behaviour(ns), a_star for
\* sample_target(s).
NoChoice == [na |-> 1, a_star |-> 1]

Choices(self, t) ==
    LET s == Observation_state(t.from)
        ns == Observation_state(t.to)
    IN  CASE self.kind = "QLearning" /\ ~Transition_terminated(t) ->
                {[na |-> na, a_star |-> 1] : na \in QLearning_sample_target(self, ns)}
          [] self.kind = "PAL" /\ ~Transition_terminated(t) ->
                {[na |-> na, a_star |-> a] :
                    na \in PAL_sample_target(self, ns), a \in PAL_sample_target(self, s)}
          [] self.kind = "GreedyGQ" /\ ~Transition_terminated(t) ->
                {[na |-> na, a_star |-> 1] : na \in GreedyGQ_sample_target(self, ns)}
          [] self.kind = "TOSARSALambda" /\ ~Transition_terminated(t) ->
                {[na |-> na, a_star |-> 1] : na \in Actions}
          [] OTHER -> {NoChoice}

handle_transition(self, t, c) ==
    CASE self.kind = "QLearning" -> QLearning_handle_transition(self, t, c.na)
      [] self.kind = "PAL" -> PAL_handle_transition(self, t, c.a_star, c.na)
      [] self.kind = "GreedyGQ" -> GreedyGQ_handle_transition(self, t, c.na)
      [] self.kind = "TOSARSALambda" -> TOSARSALambda_handle_transition(self, t, c.na)
      [] self.kind = "TDAC" -> TDAC_handle_transition(self, t)
      [] self.kind = "TDACLambda" -> TDACLambda_handle_transition(self, t)
      [] self.kind = "ExponentialTD" -> ExponentialTD_handle_transition(self, t)
      [] self.kind = "VarianceTD" -> VarianceTD_handle_transition(self, t)

\* The error term the handler scales its weight update by.
update_error(self, t, c) ==
    CASE self.kind = "QLearning" -> QLearning_residual(self, t, c.na)
      [] self.kind = "PAL" -> PAL_residual(self, t, c.a_star, c.na)
      [] self.kind = "GreedyGQ" -> GreedyGQ_residual(self, t, c.na)
      [] self.kind = "TOSARSALambda" -> TOSARSALambda_residual(self, t, c.na)
      [] self.kind = "TDAC" -> TDAC_td_error(self, t)
      [] self.kind = "TDACLambda" -> TDACLambda_td_error(self, t)
      [] self.kind = "ExponentialTD" -> ExponentialTD_td_error(self, t)
      [] self.kind = "VarianceTD" -> VarianceTD_td_error(self, t)

handle_terminal(self) ==
    CASE self.kind = "QLearning" -> QLearning_handle_terminal(self)
      [] self.kind = "PAL" -> PAL_handle_terminal(self)
      [] self.kind = "GreedyGQ" -> GreedyGQ_handle_terminal(self)
      [] self.kind = "TOSARSALambda" -> TOSARSALambda_handle_terminal(self)
      [] self.kind = "TDAC" -> TDAC_handle_terminal(self)
      [] self.kind = "TDACLambda" -> TDACLambda_handle_terminal(self)
      [] self.kind = "BaselineREINFORCE" -> BaselineREINFORCE_handle_terminal(self)
      [] self.kind = "ExponentialTD" -> ExponentialTD_handle_terminal(self)
      [] self.kind = "VarianceTD" -> VarianceTD_handle_terminal(self)

\* handle_sequence that walks the slice from its newest element back.
RECURSIVE OnlineLearner_handle_sequence_newest_first(_, _, _)
OnlineLearner_handle_sequence_newest_first(self, sequence, cs) ==
    IF sequence = <<>> THEN self
    ELSE LET n == Len(sequence) IN
         OnlineLearner_handle_sequence_newest_first(
            handle_transition(self, sequence[n], cs[n]),
            SubSeq(sequence, 1, n - 1), SubSeq(cs, 1, n - 1))

\* OnlineLearner::handle_sequence, the default:
\* sequence.into_iter().for_each(|t| self.handle_transition(t)); cs[i] holds
\* the sampler outcomes of the i-th call.
RECURSIVE OnlineLearner_handle_sequence(_, _, _)
OnlineLearner_handle_sequence(self, sequence, cs) ==
    IF sequence = <<>> THEN self
    ELSE OnlineLearner_handle_sequence(
            handle_transition(self, Head(sequence), Head(cs)), Tail(sequence), Tail(cs))

\* impl OnlineLearner for Shared<T>: self.borrow_mut().handle_sequence(..)
Shared_handle_sequence(self, sequence, cs) ==
    OnlineLearner_handle_sequence(self, sequence, cs)

Shared_handle_transition(self, t, c) == handle_transition(self, t, c)

\* ------------------------------------------------------------------------
\* Predictors: ValuePredictor and ActionValuePredictor (core/algorithms.rs)
\* and their implementations.  A call takes &mut self: its outcome is the
\* learner after the call, the value returned, and whether the call
\* aborted (unimplemented!() panics) instead of returning.
\* ------------------------------------------------------------------------

Returned(self, value) == [self |-> self, value |-> value, panicked |-> FALSE]

Aborted(self) == [self |-> self, value |-> <<>>, panicked |-> TRUE]

\* Greedy<Q>::probabilities: the unit mass spread evenly over the maxima.
Greedy_probabilities(cells, greedy, s) ==
    LET maxima == Greedy_sample(cells, greedy, s)
        mass(a) == IF a \in maxima THEN Frac(1, Cardinality(maxima)) ELSE R(0)
    IN  Vec(mass(1), mass(2))

\* Random::probabilities: 1 / n_actions for every action.
Random_probabilities == Vec(Frac(1, Cardinality(Actions)), Frac(1, Cardinality(Actions)))

\* The outcomes sample() can have inside predict_v(s).
PredictChoices(self, s) ==
    CASE self.kind = "QLearning" -> QLearning_sample_target(self, s)
      [] self.kind = "PAL" -> PAL_sample_target(self, s)
      [] OTHER -> {1}

\* Variant: the read advances the learning-rate schedule.
predict_v_stepping_alpha(self, s, a) ==
    LET q == IF self.kind \in {"QLearning", "PAL"} THEN self.cells[self.q_func]
             ELSE IF self.kind = "GreedyGQ" THEN self.cells[self.fa_q]
             ELSE IF self.kind = "TOSARSALambda" THEN self.q_func ELSE <<Zeros, Zeros>>
        v == CASE self.kind \in {"QLearning", "PAL"} -> Q_evaluate_index(q, embed(s), a)
               [] self.kind = "GreedyGQ" ->
                    Dot(Q_evaluate(q, embed(s)),
                        Greedy_probabilities(self.cells, self.target_policy, s))
               [] self.kind = "TOSARSALambda" ->
                    Dot(Q_evaluate(q, embed(s)), Random_probabilities)
               [] self.kind \in {"TDAC", "TDACLambda"} -> TD_predict_v(self.critic, s)
               [] self.kind = "ExponentialTD" -> ExponentialTD_predict_v(self, s)
               [] self.kind = "VarianceTD" -> VarianceTD_predict_v(self, s)
    IN  Returned([self EXCEPT !.alpha = Parameter_step(@)], v)

\* predict_v(s); a is what target.sample(s) returned (QLearning, PAL).
\*   QLearning, PAL:  let a = self.target.sample(s); self.predict_qsa(s, a)
\*   GreedyGQ:        self.predict_qs(s).dot(&self.target_policy.probabilities(s))
\*   TOSARSALambda:   self.predict_qs(s).dot(&self.policy.probabilities(s))
\*   TDAC(Lambda):    self.critic.predict_v(s)
\*   ExponentialTD:   self.v_func.evaluate(&self.v_func.embed(s)).unwrap()
\*   VarianceTD:      self.variance_estimator.state_value(s)
predict_v(self, s, a) ==
    CASE self.kind \in {"QLearning", "PAL"} ->
            Returned(self, Q_evaluate_index(self.cells[self.q_func], embed(s), a))
      [] self.kind = "GreedyGQ" ->
            Returned(self, Dot(Q_evaluate(self.cells[self.fa_q], embed(s)),
                               Greedy_probabilities(self.cells, self.target_policy, s)))
      [] self.kind = "TOSARSALambda" ->
            Returned(self, Dot(Q_evaluate(self.q_func, embed(s)), Random_probabilities))
      [] self.kind \in {"TDAC", "TDACLambda"} ->
            Returned(self, TD_predict_v(self.critic, s))
      [] self.kind = "ExponentialTD" -> Returned(self, ExponentialTD_predict_v(self, s))
      [] self.kind = "VarianceTD" -> Returned(self, VarianceTD_predict_v(self, s))

\* Variant of the default predict_qsa: the action selects a feature.
ActionValuePredictor_predict_qsa_by_action(self, s, a) ==
    LET out == predict_v(self, s, a)
    IN  [out EXCEPT !.value = RMul(R(a), @)]

\* The trait's default predict_qsa: self.predict_v(s), whatever the action.
ActionValuePredictor_predict_qsa(self, s, a) == predict_v(self, s, 1)

\* The trait's default predict_qs: unimplemented!().
ActionValuePredictor_predict_qs(self, s) == Aborted(self)

\* predict_qsa(s, a).
\*   QLearning, PAL, GreedyGQ, TOSARSALambda: evaluate_index(&embed(s), a).unwrap()
\*   TDAC(Lambda): self.critic.predict_qsa(s, a), the critic keeping the default
\*   ExponentialTD, VarianceTD: the default
predict_qsa(self, s, a) ==
    CASE self.kind \in {"QLearning", "PAL"} ->
            Returned(self, Q_evaluate_index(self.cells[self.q_func], embed(s), a))
      [] self.kind = "GreedyGQ" ->
            Returned(self, Q_evaluate_index(self.cells[self.fa_q], embed(s), a))
      [] self.kind = "TOSARSALambda" ->
            Returned(self, Q_evaluate_index(self.q_func, embed(s), a))
      [] self.kind \in {"TDAC", "TDACLambda"} ->
            Returned(self, Baseline_predict_qsa(self.critic, s, a))
      [] OTHER -> ActionValuePredictor_predict_qsa(self, s, a)

\* predict_qs(s).
\*   QLearning, PAL, GreedyGQ, TOSARSALambda: evaluate(&embed(s)).unwrap()
\*   TDAC(Lambda): self.critic.predict_qs(s), the critic keeping the default
\*   ExponentialTD, VarianceTD: the default
predict_qs(self, s) ==
    CASE self.kind \in {"QLearning", "PAL"} ->
            Returned(self, Q_evaluate(self.cells[self.q_func], embed(s)))
      [] self.kind = "GreedyGQ" ->
            Returned(self, Q_evaluate(self.cells[self.fa_q], embed(s)))
      [] self.kind = "TOSARSALambda" ->
            Returned(self, Q_evaluate(self.q_func, embed(s)))
      [] OTHER -> ActionValuePredictor_predict_qs(self, s)

\* ------------------------------------------------------------------------
\* Calls that can fail: approximator updates returning Err, swallowed by
\* `.ok()`, and policy methods whose body is unimplemented!()
\* ------------------------------------------------------------------------

\* fa.update(..).ok() / fa.update_index(..).ok(): the weights after the call
\* when it returned Ok, the weights as they were when it returned Err.
Update_ok(ok, weights, updated) == IF ok THEN updated ELSE weights

\* Dirac::mpa, which sample() returns, and Dirac::probability.
Dirac_mpa(self, s) == Dot(self.theta, embed(s))

Dirac_probability(self, s, a) == IF a = Dirac_mpa(self, s) THEN R(1) ELSE R(0)

\* policy.update(s, a, error): Dirac's body is unimplemented!().
ParameterisedPolicy_update(self, s, a, error) ==
    IF self.kind = "Dirac" THEN Aborted(self)
    ELSE Returned(Policy_update(self, s, a, error), <<>>)

\* policy.update_raw(errors): Beta's and Gamma's bodies are unimplemented!().
ParameterisedPolicy_update_raw(self, errors) ==
    IF self.kind \in {"Beta", "Gamma"} THEN Aborted(self)
    ELSE Returned(Policy_update_raw(self, errors), <<>>)

\* The update calls one handle_transition makes, in order.
UpdateCalls(kind) ==
    CASE kind \in {"QLearning", "PAL"} -> <<"q_func.update_index">>
      [] kind = "GreedyGQ" -> <<"fa_w.update", "fa_q.update_index">>
      [] kind = "TOSARSALambda" -> <<"q_func.update_index", "q_func.update_index">>
      [] kind = "ExponentialTD" -> <<"v_func.update">>
      [] kind = "VarianceTD" -> <<"variance_estimator.update">>
      [] OTHER -> <<>>

\* What a handle_transition call leaves behind: the learner, whether the
\* call panicked instead of returning, and the update calls it attempted.
Handled_as(self, panicked, calls) == [self |-> self, panicked |-> panicked, calls |-> calls]

\* GreedyGQ::handle_transition, its two update calls returning oks[1], oks[2].
GreedyGQ_handle_transition_results(self, t, na, oks) ==
    LET phi_s == embed(Observation_state(t.from))
        estimate == V_evaluate(self.fa_w, phi_s)
        residual == GreedyGQ_residual(self, t, na)
        alpha == Parameter_value(self.alpha)
        beta == Parameter_value(self.beta)
        gamma == Parameter_value(self.gamma)
        w_error == RMul(RMul(alpha, beta), RSub(residual, estimate))
        fa_q == self.cells[self.fa_q]
    IN  IF Transition_terminated(t)
        THEN [self EXCEPT
                !.fa_w = Update_ok(oks[1], @, V_update(@, phi_s, w_error)),
                !.cells[self.fa_q] = Update_ok(oks[2], @,
                    Q_update_index(@, phi_s, t.action, RMul(alpha, residual)))]
        ELSE LET phi_ns == embed(Observation_state(t.to))
                 update_q == VSub(Scale(residual, phi_s),
                                  Scale(RMul(estimate, gamma), phi_ns))
             IN  [self EXCEPT
                    !.fa_w = Update_ok(oks[1], @, V_update(@, phi_s, w_error)),
                    !.cells[self.fa_q] = Update_ok(oks[2], @,
                        Q_update_index(@, update_q, t.action, alpha))]

\* TOSARSALambda::handle_transition, its two update_index calls returning
\* oks[1], oks[2].
TOSARSALambda_handle_transition_results(self, t, na, oks) ==
    LET phi_s == embed(Observation_state(t.from))
        decay_rate == RMul(Parameter_value(self.trace.lambda), Parameter_value(self.gamma))
        traced == TOSARSALambda_update_traces(self, phi_s, decay_rate)
        z == Trace_get(traced.trace)
        qsa == Q_evaluate_index(self.q_func, phi_s, t.action)
        q_old == self.q_old
        residual == TOSARSALambda_residual(self, t, na)
        alpha == Parameter_value(self.alpha)
        branch ==
            IF Transition_terminated(t)
            THEN [traced EXCEPT !.q_old = R(0), !.trace = Trace_decay(@, R(0))]
            ELSE [traced EXCEPT !.q_old =
                    Q_evaluate_index(self.q_func, embed(Observation_state(t.to)), na)]
        first == Update_ok(oks[1], branch.q_func,
                    Q_update_index(branch.q_func, z, t.action, RMul(alpha, residual)))
    IN  [branch EXCEPT !.q_func =
            Update_ok(oks[2], first,
                Q_update_index(first, phi_s, t.action, RMul(alpha, RSub(q_old, qsa))))]

\* TDAC::handle_transition with the policy's update possibly aborting.
TDAC_handle_transition_outcome(self, t) ==
    LET s == Observation_state(t.from)
        td_error == TDAC_td_error(self, t)
        critic == TD_handle_transition(self.critic, t)
        updated == ParameterisedPolicy_update(self.policy, s, t.action,
                        RMul(Parameter_value(self.alpha), td_error))
    IN  Handled_as([self EXCEPT !.critic = critic, !.policy = updated.self],
                   updated.panicked, <<>>)

\* TDACLambda::handle_transition with the policy's update_raw possibly
\* aborting.
TDACLambda_handle_transition_outcome(self, t) ==
    LET s == Observation_state(t.from)
        td_error == TDACLambda_td_error(self, t)
        gl_policy == Policy_grad_log(self.policy, s, t.action)
        trace == VAdd(Scale(RMul(Parameter_value(self.gamma),
                                 Parameter_value(self.lambda)), self.trace),
                      gl_policy)
        critic == TD_handle_transition(self.critic, t)
        updated == ParameterisedPolicy_update_raw(self.policy,
                        Scale(RMul(Parameter_value(self.alpha), td_error), trace))
    IN  Handled_as([self EXCEPT !.trace = trace, !.critic = critic,
                                !.policy = updated.self],
                   updated.panicked, <<>>)

\* Variant: the first update call that returns Err ends the handler, as
\* the `?` operator would.
try_handle_transition_returning_at_first_error(self, t, c, oks) ==
    LET calls == UpdateCalls(self.kind)
        seen == IF \E k \in 1..Len(oks) : ~oks[k]
                THEN CHOOSE k \in 1..Len(oks) : ~oks[k] /\ \A j \in 1..(k - 1) : oks[j]
                ELSE Len(oks)
        cut == [k \in 1..Len(oks) |-> oks[k] /\ k <= seen]
    IN  CASE self.kind \in {"QLearning", "PAL", "ExponentialTD", "VarianceTD"} ->
                Handled_as(IF oks[1] THEN handle_transition(self, t, c) ELSE self,
                           FALSE, calls)
          [] self.kind = "GreedyGQ" ->
                Handled_as(GreedyGQ_handle_transition_results(self, t, c.na, cut),
                           FALSE, SubSeq(calls, 1, seen))
          [] self.kind = "TOSARSALambda" ->
                Handled_as(TOSARSALambda_handle_transition_results(self, t, c.na, cut),
                           FALSE, SubSeq(calls, 1, seen))
          [] self.kind = "TDAC" -> TDAC_handle_transition_outcome(self, t)
          [] self.kind = "TDACLambda" -> TDACLambda_handle_transition_outcome(self, t)

\* learner.handle_transition(&t) with the results oks of its update calls.
\* QLearning, PAL, ExponentialTD and VarianceTD make one update call, the
\* only assignment of the handler, and discard its Result with `.ok()`.
try_handle_transition(self, t, c, oks) ==
    LET calls == UpdateCalls(self.kind)
    IN  CASE self.kind \in {"QLearning", "PAL", "ExponentialTD", "VarianceTD"} ->
                Handled_as(Update_ok(oks[1], self, handle_transition(self, t, c)),
                           FALSE, calls)
          [] self.kind = "GreedyGQ" ->
                Handled_as(GreedyGQ_handle_transition_results(self, t, c.na, oks),
                           FALSE, calls)
          [] self.kind = "TOSARSALambda" ->
                Handled_as(TOSARSALambda_handle_transition_results(self, t, c.na, oks),
                           FALSE, calls)
          [] self.kind = "TDAC" -> TDAC_handle_transition_outcome(self, t)
          [] self.kind = "TDACLambda" -> TDACLambda_handle_transition_outcome(self, t)

\* ------------------------------------------------------------------------
\* The market-making environment (env/mod.rs, env/dynamics)
\* ------------------------------------------------------------------------

\* sqrt() on f64, for the squares of rationals the price dynamics are built
\* with.
ISqrt(n) == CHOOSE k \in 0..n : k * k = n

RSqrt(x) == Frac(ISqrt(x[1]), ISqrt(x[2]))

\* exp() on f64 for match_prob: the square of the Taylor polynomial at x/2,
\* positive everywhere and never zero, as exp is.
RExpSquared(x) == LET h == RExp(RMul(Frac(1, 2), x)) IN RMul(h, h)

INV_BOUNDS == <<R(-50), R(50)>>

MAX_DRIFT == R(5)

BrownianMotion_new(dt, volatility) ==
    [kind |-> "BrownianMotion", dt |-> dt, drift |-> R(0), volatility |-> volatility]

BrownianMotionWithDrift_new(dt, drift, volatility) ==
    [kind |-> "BrownianMotionWithDrift", dt |-> dt, drift |-> drift,
     volatility |-> volatility]

\* sample_increment with z the draw from StandardNormal.
PriceDynamics_sample_increment(self, z) ==
    IF self.kind = "BrownianMotion"
    THEN RMul(RMul(self.volatility, RSqrt(self.dt)), z)
    ELSE RAdd(RMul(self.drift, self.dt),
              RMul(RMul(self.volatility, RSqrt(self.dt)), z))

PoissonRate_new(dt, scale, decay) == [dt |-> dt, scale |-> scale, decay |-> decay]

PoissonRate_default == PoissonRate_new(Frac(5, 1000), R(140), Frac(3, 2))

\* Variant: the probability is not clamped to [0, 1] from above.
PoissonRate_match_prob_unclamped(self, offset) ==
    LET lambda == RMul(self.scale, RExpSquared(RMul(RNeg(self.decay), offset)))
    IN  RMax(RMul(lambda, self.dt), R(0))

PoissonRate_match_prob(self, offset) ==
    LET lambda == RMul(self.scale, RExpSquared(RMul(RNeg(self.decay), offset)))
        p == RMax(RMul(lambda, self.dt), R(0))
    IN  IF RLt(R(1), p) THEN R(1) ELSE p

ASDynamics_new(dt, price, price_dynamics, execution_dynamics) ==
    [dt |-> dt, time |-> R(0), price |-> price, price_initial |-> price,
     price_dynamics |-> price_dynamics, execution_dynamics |-> execution_dynamics]

\* Variant: the clock is advanced only when the price moved.
ASDynamics_innovate_clock_with_price(self, z) ==
    LET price_inc == PriceDynamics_sample_increment(self.price_dynamics, z)
    IN  [dynamics |-> [self EXCEPT
                          !.time = IF price_inc = R(0) THEN @ ELSE RAdd(@, self.dt),
                          !.price = RAdd(@, price_inc)],
         price_inc |-> price_inc]

ASDynamics_innovate(self, z) ==
    LET price_inc == PriceDynamics_sample_increment(self.price_dynamics, z)
    IN  [dynamics |-> [self EXCEPT !.time = RAdd(@, self.dt),
                                   !.price = RAdd(@, price_inc)],
         price_inc |-> price_inc]

\* The results rng.gen_bool(match_prob) can give.
ASDynamics_gen_bool(p) ==
    IF p = R(1) THEN {TRUE} ELSE IF p = R(0) THEN {FALSE} ELSE BOOLEAN

\* try_execute with hit the result of gen_bool: Some(offset) is <<offset>>,
\* None is <<>>.
ASDynamics_try_execute(self, offset, hit) == IF hit THEN <<offset>> ELSE <<>>

ASDynamics_try_execute_ask(self, order_price, hit) ==
    ASDynamics_try_execute(self, RSub(order_price, self.price), hit)

ASDynamics_try_execute_bid(self, order_price, hit) ==
    ASDynamics_try_execute(self, RSub(self.price, order_price), hit)

\* The gen_bool results open to the two orders of one step at the price
\* reached by innovate.
OrderHits(dynamics, ask_price, bid_price) ==
    {<<ah, bh>> :
        ah \in ASDynamics_gen_bool(PoissonRate_match_prob(
                   dynamics.execution_dynamics, RSub(ask_price, dynamics.price))),
        bh \in ASDynamics_gen_bool(PoissonRate_match_prob(
                   dynamics.execution_dynamics, RSub(dynamics.price, bid_price)))}

Env_new(dynamics) ==
    [dynamics |-> dynamics, inv |-> R(0), inv_terminal |-> R(0),
     ask_executed |-> FALSE, bid_executed |-> FALSE,
     reward |-> R(0), wealth |-> R(0)]

Env_is_terminal(self) == RLe(R(1), self.dynamics.time)

Env_emit(self) ==
    LET inv == IF RLt(INV_BOUNDS[2], self.inv) THEN INV_BOUNDS[2] ELSE self.inv
        state == <<self.dynamics.time,
                   IF RLt(inv, INV_BOUNDS[1]) THEN INV_BOUNDS[1] ELSE inv>>
    IN  IF Env_is_terminal(self)
        THEN Observation("Terminal", state)
        ELSE Observation("Full", state)

Env_execute_ask(self, ask_price, hit) ==
    LET ask == ASDynamics_try_execute_ask(self.dynamics, ask_price, hit)
    IN  IF RLt(INV_BOUNDS[1], self.inv) /\ ask # <<>>
        THEN [self EXCEPT !.ask_executed = TRUE,
                          !.inv = RSub(@, R(1)),
                          !.reward = RAdd(@, ask[1]),
                          !.wealth = RAdd(@, ask_price)]
        ELSE self

\* Variant: the bid is tried whatever the inventory.
Env_execute_bid_unbounded(self, bid_price, hit) ==
    LET bid == ASDynamics_try_execute_bid(self.dynamics, bid_price, hit)
    IN  IF bid # <<>>
        THEN [self EXCEPT !.bid_executed = TRUE,
                          !.inv = RAdd(@, R(1)),
                          !.reward = RAdd(@, bid[1]),
                          !.wealth = RSub(@, bid_price)]
        ELSE self

Env_execute_bid(self, bid_price, hit) ==
    LET bid == ASDynamics_try_execute_bid(self.dynamics, bid_price, hit)
    IN  IF RLt(self.inv, INV_BOUNDS[2]) /\ bid # <<>>
        THEN [self EXCEPT !.bid_executed = TRUE,
                          !.inv = RAdd(@, R(1)),
                          !.reward = RAdd(@, bid[1]),
                          !.wealth = RSub(@, bid_price)]
        ELSE self

Env_do_executions(self, ask_price, bid_price, hits) ==
    Env_execute_bid(Env_execute_ask(self, ask_price, hits[1]), bid_price, hits[2])

\* The market order that closes the inventory at the mid price.
Env_liquidate(self) ==
    IF Env_is_terminal(self)
    THEN [self EXCEPT
            !.wealth = RAdd(@, RMul(self.dynamics.price, self.inv)),
            !.reward = RSub(@, RMul(Frac(1, 2), RMul(self.inv, self.inv))),
            !.inv_terminal = self.inv,
            !.inv = R(0)]
    ELSE self

\* Variant: the price move earned on the inventory is left out of the reward.
Env_update_state_without_inventory_pnl(self, ask_offset, bid_offset, z, hits) ==
    LET ask_price == RAdd(self.dynamics.price, ask_offset)
        bid_price == RSub(self.dynamics.price, bid_offset)
        moved == ASDynamics_innovate(self.dynamics, z)
        quoted == [self EXCEPT !.dynamics = moved.dynamics,
                               !.reward = R(0),
                               !.ask_executed = FALSE,
                               !.bid_executed = FALSE]
    IN  Env_liquidate(Env_do_executions(quoted, ask_price, bid_price, hits))

\* update_state with z the draw of the price increment and hits the gen_bool
\* results of the ask and of the bid.
Env_update_state(self, ask_offset, bid_offset, z, hits) ==
    LET ask_price == RAdd(self.dynamics.price, ask_offset)
        bid_price == RSub(self.dynamics.price, bid_offset)
        moved == ASDynamics_innovate(self.dynamics, z)
        quoted == [self EXCEPT !.dynamics = moved.dynamics,
                               !.reward = RMul(self.inv, moved.price_inc),
                               !.ask_executed = FALSE,
                               !.bid_executed = FALSE]
    IN  Env_liquidate(Env_do_executions(quoted, ask_price, bid_price, hits))

Env_reward(self, from, to) == self.reward

\* step(action): the environment after the step and the transition returned.
Env_step(self, action, z, hits) ==
    LET from == Env_emit(self)
        after == Env_update_state(self, action[1], action[2], z, hits)
        to == Env_emit(after)
    IN  [env |-> after,
         t |-> Transition(from, action, Env_reward(after, from, to), to)]

\* The draws open to step(action) in the environment self: the standard
\* normal sample of the price increment and the gen_bool results.
StepDraws(self, action, noise) ==
    UNION {{<<z, hits>> :
              hits \in OrderHits(ASDynamics_innovate(self.dynamics, z).dynamics,
                                 RAdd(self.dynamics.price, action[1]),
                                 RSub(self.dynamics.price, action[2]))} :
           z \in noise}

\* Transform trader action (agents/mod.rs).
tta(a) == <<RAdd(a[1], a[2]), RSub(a[2], a[1])>>

\* ------------------------------------------------------------------------
\* The learners built in Init and the transitions fed to them
\* ------------------------------------------------------------------------

StartState == 0

\* Annealed parameters, each with its own schedule.
Alpha0 == Parameter_exponential(R(1), Frac(1, 2), Frac(1, 2))
Beta0 == Parameter_exponential(R(2), Frac(1, 2), Frac(1, 4))
Gamma0 == Parameter_exponential(Frac(1, 2), Frac(1, 4), Frac(1, 2))
Lambda0 == Parameter_exponential(R(1), Frac(3, 4), Frac(1, 2))
Rho0 == Parameter_exponential(R(1), Frac(1, 2), Frac(1, 2))
CriticAlpha0 == Parameter_exponential(Frac(1, 2), Frac(1, 4), Frac(1, 2))
CriticGamma0 == Parameter_fixed(R(1))

\* Q(0, .) = (1, 0) and Q(1, .) = (0, 2) under QSkew; all ties under QZero.
QZero == <<Zeros, Zeros>>
QSkew == <<Vec(R(1), R(-1)), Vec(R(0), R(2))>>

\* f64 arguments of new() become fixed Parameters (Into<Parameter>).
InitLearners ==
        {QLearning_new(QZero, Alpha0, Gamma0),
         QLearning_new(QSkew, Alpha0, Gamma0),
         PAL_new(QZero, Alpha0, Gamma0),
         PAL_new(QSkew, Alpha0, Gamma0),
         GreedyGQ_new(QSkew, Vec(R(1), R(1)), Alpha0, Beta0, Gamma0),
         TOSARSALambda_new(QSkew, Trace_accumulating(Lambda0), Alpha0, Gamma0),
         QLearning_new(QSkew, Parameter_fixed(Frac(1, 10)), Parameter_fixed(Frac(9, 10))),
         TDAC_new(TD_new(Vec(R(1), R(1)), CriticAlpha0, CriticGamma0),
                  Policy_new(Vec(R(1), R(0))), Alpha0, Gamma0),
         TDACLambda_new(TD_new(Vec(R(1), R(1)), CriticAlpha0, CriticGamma0),
                        Policy_new(Vec(R(1), R(0))), Alpha0, Gamma0, Lambda0),
         BaselineREINFORCE_new(Policy_new(Vec(R(1), R(0))),
                               TD_new(Vec(R(1), R(1)), CriticAlpha0, CriticGamma0),
                               Alpha0, Gamma0),
         ExponentialTD_new(Zeros, StartState, Alpha0, Rho0),
         ExponentialTD_new(Vec(R(1), R(1)), StartState, Alpha0, Rho0),
         VarianceTD_new(Vec(R(1), R(1)), Vec(R(0), R(1)), Alpha0, Gamma0)}

\* The transitions the domain can emit from observation o: none once the
\* episode has reached its terminal observation.
TransitionsFrom(o) ==
    IF Observation_is_terminal(o) THEN {}
    ELSE {Transition(o, a, r, Observation(tag, ns)) :
            a \in Actions, r \in Rewards, tag \in {"Full", "Terminal"}, ns \in States}

\* Sequences of n consecutive transitions from o, each with the sampler
\* outcomes of its handle_transition call.
RECURSIVE Runs(_, _, _)
Runs(self, o, n) ==
    IF n = 0 THEN {[ts |-> <<>>, cs |-> <<>>]}
    ELSE UNION {UNION {
            {[ts |-> <<t>> \o r.ts, cs |-> <<c>> \o r.cs] :
                r \in Runs(handle_transition(self, t, c), t.to, n - 1)}
            : c \in Choices(self, t)} : t \in TransitionsFrom(o)}

RECURSIVE Batches(_, _)
Batches(o, n) ==
    IF n = 0 THEN {<<>>}
    ELSE UNION {{<<t>> \o b : b \in Batches(t.to, n - 1)} : t \in TransitionsFrom(o)}

\* Rewards of the Monte-Carlo episodes: the running reward, and the payoffs
\* a transition into a terminal observation can carry.
BatchRewards(tag) == IF tag = "Terminal" THEN {R(1), R(2)} ELSE Rewards

\* Batches of n consecutive transitions from o.
RECURSIVE EpisodeBatches(_, _)
EpisodeBatches(o, n) ==
    IF n = 0 THEN {<<>>}
    ELSE IF Observation_is_terminal(o) THEN {}
    ELSE UNION {UNION {{<<Transition(o, a, r, Observation(tag, ns))>> \o b :
                          b \in EpisodeBatches(Observation(tag, ns), n - 1)} :
                       r \in BatchRewards(tag)} :
                a \in Actions, tag \in {"Full", "Terminal"}, ns \in States}

\* Monte-Carlo learners: an undiscounted one and an annealed one.
InitBatchLearners ==
    {BaselineREINFORCE_new(Policy_new(Vec(R(1), R(0))),
                           TD_new(Vec(R(1), R(1)), CriticAlpha0, CriticGamma0),
                           Alpha0, Parameter_fixed(R(1))),
     BaselineREINFORCE_new(Policy_new(Vec(R(1), R(0))),
                           TD_new(Vec(R(1), R(1)), CriticAlpha0, CriticGamma0),
                           Alpha0, Gamma0)}

\* ------------------------------------------------------------------------
\* State
\* ------------------------------------------------------------------------

VARIABLES
    learner,    \* the algorithm instance: a record of its fields
    obs,        \* the domain's current observation
    pre,        \* the learner as it was when the last call started
    last,       \* the last call: operation, arguments, sampler outcomes, error
    steps,      \* transitions handled so far
    episodes,   \* handle_terminal calls so far
    env,        \* the market-making environment of the running episode
    frame       \* the episode function being run and its local variables

vars == <<learner, obs, pre, last, steps, episodes, env, frame>>

\* No environment is built and no episode function runs while the learner
\* is called directly.
NoEnv == Env_new(ASDynamics_new(R(1), R(0), BrownianMotion_new(R(1), R(0)),
                                PoissonRate_default))

NoFrame == [fn |-> "none", pc |-> "returned", quotes |-> <<R(0), R(0)>>,
            drift |-> R(0), i |-> 0, reward_sum |-> R(0), drift_sum |-> R(0),
            spread_sum |-> R(0), result |-> <<>>,
            samples |-> [quotes |-> {}, drift |-> {}]]

NoCall == [op |-> "new", via |-> "direct", t |-> NoTransition, ts |-> <<>>,
           c |-> NoChoice, cs |-> <<>>, error |-> R(0), rets |-> <<>>,
           s |-> StartState, a |-> 1, value |-> <<>>, panicked |-> FALSE,
           again |-> FALSE, before |-> <<>>,
           oks |-> <<>>, calls |-> <<>>, faults |-> 0,
           arg |-> <<>>, out |-> <<>>]

Init ==
    /\ learner \in InitLearners
    /\ obs = Observation("Full", StartState)
    /\ pre = learner
    /\ last = NoCall
    /\ steps = 0
    /\ episodes = 0
    /\ env = NoEnv
    /\ frame = NoFrame

\* learner.handle_transition(&t) on a learner of the given kind.
HandleTransition(kind) ==
    /\ learner.kind = kind
    /\ steps < MaxSteps
    /\ \E t \in TransitionsFrom(obs) : \E c \in Choices(learner, t) :
        /\ learner' = handle_transition(learner, t, c)
        /\ last' = [NoCall EXCEPT !.op = "handle_transition", !.t = t, !.c = c,
                                  !.error = update_error(learner, t, c)]
        /\ obs' = t.to
    /\ pre' = learner
    /\ UNCHANGED <<env, frame>>
    /\ steps' = steps + 1
    /\ UNCHANGED episodes

QLearningTransition == HandleTransition("QLearning")
PALTransition == HandleTransition("PAL")
GreedyGQTransition == HandleTransition("GreedyGQ")
TOSARSALambdaTransition == HandleTransition("TOSARSALambda")
TDACTransition == HandleTransition("TDAC")
TDACLambdaTransition == HandleTransition("TDACLambda")
ExponentialTDTransition == HandleTransition("ExponentialTD")
VarianceTDTransition == HandleTransition("VarianceTD")

\* No transition of the current episode has been handled yet.
EpisodeStart == last.op \in {"new", "handle_terminal"}

\* learner.handle_sequence(&ts), directly or through a Shared<T> wrapper:
\* the first transitions of an episode handed over as one slice.
HandleSequence ==
    /\ learner.kind \in OnlineKinds
    /\ EpisodeStart
    /\ \E n \in 0..(MaxSteps - steps) : \E r \in Runs(learner, obs, n) :
       \E via \in {"direct", "shared"} :
        /\ learner' = IF via = "shared"
                      THEN Shared_handle_sequence(learner, r.ts, r.cs)
                      ELSE OnlineLearner_handle_sequence(learner, r.ts, r.cs)
        /\ last' = [NoCall EXCEPT !.op = "handle_sequence", !.via = via,
                                  !.ts = r.ts, !.cs = r.cs]
        /\ obs' = IF n = 0 THEN obs ELSE r.ts[n].to
        /\ steps' = steps + n
    /\ pre' = learner
    /\ UNCHANGED <<env, frame>>
    /\ UNCHANGED episodes

\* learner.handle_batch(&batch) on BaselineREINFORCE: the transitions of an
\* episode, oldest first.
HandleBatch ==
    /\ learner.kind = "BaselineREINFORCE"
    /\ EpisodeStart
    /\ \E n \in 0..(MaxSteps - steps) : \E batch \in Batches(obs, n) :
        LET run == BaselineREINFORCE_handle_batch_run(learner, batch) IN
        /\ learner' = BaselineREINFORCE_handle_batch(learner, batch)
        /\ last' = [NoCall EXCEPT !.op = "handle_batch", !.ts = batch, !.rets = run.rets]
        /\ obs' = IF n = 0 THEN obs ELSE batch[n].to
        /\ steps' = steps + n
    /\ pre' = learner
    /\ UNCHANGED <<env, frame>>
    /\ UNCHANGED episodes

\* learner.handle_terminal(); the domain is reset for the next episode.
HandleTerminal ==
    /\ episodes < MaxEpisodes
    /\ learner' = handle_terminal(learner)
    /\ last' = [NoCall EXCEPT !.op = "handle_terminal"]
    /\ obs' = Observation("Full", StartState)
    /\ pre' = learner
    /\ UNCHANGED <<env, frame>>
    /\ episodes' = episodes + 1
    /\ UNCHANGED steps

Next ==
    \/ QLearningTransition
    \/ PALTransition
    \/ GreedyGQTransition
    \/ TOSARSALambdaTransition
    \/ TDACTransition
    \/ TDACLambdaTransition
    \/ ExponentialTDTransition
    \/ VarianceTDTransition
    \/ HandleBatch
    \/ HandleTerminal

Spec == Init /\ [][Next]_vars

\* learner.handle_batch(&batch) with the whole first episode of a freshly
\* built learner: up to MaxBatch transitions, oldest first, possibly none.
HandleEpisodeBatch ==
    /\ learner.kind = "BaselineREINFORCE"
    /\ last.op = "new"
    /\ \E k \in 0..(MaxBatch - steps) : \E batch \in EpisodeBatches(obs, k) :
        LET run == BaselineREINFORCE_handle_batch_run(learner, batch)
            n == Len(batch) IN
        /\ learner' = BaselineREINFORCE_handle_batch(learner, batch)
        /\ last' = [NoCall EXCEPT !.op = "handle_batch", !.ts = batch, !.rets = run.rets]
        /\ obs' = IF n = 0 THEN obs ELSE batch[n].to
        /\ steps' = steps + n
    /\ pre' = learner
    /\ UNCHANGED <<env, frame>>
    /\ UNCHANGED episodes

InitBatch ==
    /\ learner \in InitBatchLearners
    /\ obs = Observation("Full", StartState)
    /\ pre = learner
    /\ last = NoCall
    /\ steps = 0
    /\ episodes = 0
    /\ env = NoEnv
    /\ frame = NoFrame

NextBatch ==
    \/ HandleEpisodeBatch
    \/ HandleTerminal

SpecBatch == InitBatch /\ [][NextBatch]_vars

PredictOps == {"predict_v", "predict_qsa", "predict_qs"}

\* The previous call was this same prediction with the same arguments.
Repeats(op, s, a) == last.op = op /\ last.s = s /\ last.a = a

\* A run trains first and queries the predictors afterwards, each query
\* made once or twice in a row.
MayPredict(op, s, a) ==
    /\ ~last.panicked
    /\ last.op \in PredictOps => Repeats(op, s, a) /\ ~last.again

\* The record of a prediction call and its outcome.
Predicted(op, s, a, out) ==
    [NoCall EXCEPT !.op = op, !.s = s, !.a = a,
                   !.value = out.value, !.panicked = out.panicked,
                   !.again = Repeats(op, s, a), !.before = last.value]

\* learner.predict_v(&s)
PredictV ==
    /\ \E s \in States : \E a \in PredictChoices(learner, s) :
        LET out == predict_v(learner, s, a) IN
        /\ MayPredict("predict_v", s, 1)
        /\ learner' = out.self
        /\ last' = Predicted("predict_v", s, 1, out)
    /\ pre' = learner
    /\ UNCHANGED <<env, frame>>
    /\ UNCHANGED <<obs, steps, episodes>>

\* learner.predict_qsa(&s, a)
PredictQsa ==
    /\ \E s \in States, a \in Actions :
        LET out == predict_qsa(learner, s, a) IN
        /\ MayPredict("predict_qsa", s, a)
        /\ learner' = out.self
        /\ last' = Predicted("predict_qsa", s, a, out)
    /\ pre' = learner
    /\ UNCHANGED <<env, frame>>
    /\ UNCHANGED <<obs, steps, episodes>>

\* learner.predict_qs(&s); a panic ends the run.
PredictQs ==
    /\ \E s \in States :
        LET out == predict_qs(learner, s) IN
        /\ MayPredict("predict_qs", s, 1)
        /\ learner' = out.self
        /\ last' = Predicted("predict_qs", s, 1, out)
    /\ pre' = learner
    /\ UNCHANGED <<env, frame>>
    /\ UNCHANGED <<obs, steps, episodes>>

\* A handle_transition of the training that precedes the queries.
PredictStep ==
    /\ last.op \notin PredictOps
    /\ \E kind \in OnlineKinds : HandleTransition(kind)

InitPredict ==
    /\ learner \in {l \in InitLearners : l.kind \in OnlineKinds}
    /\ obs = Observation("Full", StartState)
    /\ pre = learner
    /\ last = NoCall
    /\ steps = 0
    /\ episodes = 0
    /\ env = NoEnv
    /\ frame = NoFrame

NextPredict ==
    \/ PredictV
    \/ PredictQsa
    \/ PredictQs
    \/ PredictStep

SpecPredict == InitPredict /\ [][NextPredict]_vars

\* The number of update calls in oks that returned Err.
Errs(oks) == Cardinality({k \in 1..Len(oks) : ~oks[k]})

\* The Results the update calls of one handle_transition can return.
Oks(kind) == [1..Len(UpdateCalls(kind)) -> BOOLEAN]

\* learner.handle_transition(&t) with update calls that can return Err and
\* policy methods that can panic; a panic ends the run.
TryHandleTransition ==
    /\ learner.kind \in OnlineKinds
    /\ ~last.panicked
    /\ steps < MaxSteps
    /\ \E t \in TransitionsFrom(obs) : \E c \in Choices(learner, t) :
       \E oks \in Oks(learner.kind) :
        LET out == try_handle_transition(learner, t, c, oks) IN
        /\ last.faults + Errs(oks) <= MaxFaults
        /\ learner' = out.self
        /\ last' = [NoCall EXCEPT !.op = "handle_transition", !.t = t, !.c = c,
                                  !.oks = oks, !.calls = out.calls,
                                  !.panicked = out.panicked,
                                  !.faults = last.faults + Errs(oks)]
        /\ obs' = t.to
    /\ pre' = learner
    /\ UNCHANGED <<env, frame>>
    /\ steps' = steps + 1
    /\ UNCHANGED episodes

\* The arguments of the policy calls.
PolicyErrors == {Frac(1, 10), R(1)}

\* policy.update(&s, a, error) on a policy used on its own.
PolicyUpdate ==
    /\ learner.kind = "Dirac"
    /\ ~last.panicked
    /\ \E s \in States, a \in Actions, error \in PolicyErrors :
        LET out == ParameterisedPolicy_update(learner, s, a, error) IN
        /\ learner' = out.self
        /\ last' = [NoCall EXCEPT !.op = "update", !.s = s, !.a = a, !.error = error,
                                  !.panicked = out.panicked]
    /\ pre' = learner
    /\ UNCHANGED <<env, frame>>
    /\ UNCHANGED <<obs, steps, episodes>>

\* policy.update_raw(errors) on a policy used on its own.
PolicyUpdateRaw ==
    /\ learner.kind = "Dirac"
    /\ ~last.panicked
    /\ steps < MaxSteps
    /\ \E e1 \in PolicyErrors, e2 \in PolicyErrors :
        LET out == ParameterisedPolicy_update_raw(learner, Vec(e1, e2)) IN
        /\ learner' = out.self
        /\ last' = [NoCall EXCEPT !.op = "update_raw", !.panicked = out.panicked]
    /\ pre' = learner
    /\ UNCHANGED <<env, frame>>
    /\ steps' = steps + 1
    /\ UNCHANGED <<obs, episodes>>

\* One learner of each kind whose update calls can fail, the actor-critic
\* learners over each policy type, and a Dirac policy over zero weights.
InitFaultLearners ==
    {QLearning_new(QSkew, Alpha0, Gamma0),
     PAL_new(QSkew, Alpha0, Gamma0),
     GreedyGQ_new(QSkew, Vec(R(1), R(1)), Alpha0, Beta0, Gamma0),
     TOSARSALambda_new(QSkew, Trace_accumulating(Lambda0), Alpha0, Gamma0),
     ExponentialTD_new(Vec(R(1), R(1)), StartState, Alpha0, Rho0),
     VarianceTD_new(Vec(R(1), R(1)), Vec(R(0), R(1)), Alpha0, Gamma0),
     TDAC_new(TD_new(Vec(R(1), R(1)), CriticAlpha0, CriticGamma0),
              Beta_new(Vec(R(1), R(0))), Alpha0, Gamma0),
     TDAC_new(TD_new(Vec(R(1), R(1)), CriticAlpha0, CriticGamma0),
              Dirac_new(Vec(R(1), R(0))), Alpha0, Gamma0),
     TDACLambda_new(TD_new(Vec(R(1), R(1)), CriticAlpha0, CriticGamma0),
                    Dirac_new(Vec(R(1), R(0))), Alpha0, Gamma0, Lambda0),
     TDACLambda_new(TD_new(Vec(R(1), R(1)), CriticAlpha0, CriticGamma0),
                    Beta_new(Vec(R(1), R(0))), Alpha0, Gamma0, Lambda0),
     TDACLambda_new(TD_new(Vec(R(1), R(1)), CriticAlpha0, CriticGamma0),
                    Gamma_new(Vec(R(1), R(0))), Alpha0, Gamma0, Lambda0),
     Dirac_new(Zeros)}

InitFaults ==
    /\ learner \in InitFaultLearners
    /\ obs = Observation("Full", StartState)
    /\ pre = learner
    /\ last = NoCall
    /\ steps = 0
    /\ episodes = 0
    /\ env = NoEnv
    /\ frame = NoFrame

NextFaults ==
    \/ TryHandleTransition
    \/ PolicyUpdate
    \/ PolicyUpdateRaw

SpecFaults == InitFaults /\ [][NextFaults]_vars

\* The methods of Transition and sub2ind are pure: a run is one call on
\* arguments of the caller's choice.
\* Transitions of every shape, for the methods of Transition.
AnyObservation == {Observation(tag, s) : tag \in {"Full", "Partial", "Terminal"}, s \in States}

AnyReward == {R(-1), R(0), Frac(1, 2)}

AnyTransition ==
    {Transition(from, a, r, to) :
        from \in AnyObservation, a \in Actions, r \in AnyReward, to \in AnyObservation}

\* t.replace_action(action)
ReplaceAction ==
    /\ last.op = "new"
    /\ \E t \in AnyTransition, action \in Actions :
        last' = [NoCall EXCEPT !.op = "replace_action", !.t = t, !.arg = action,
                               !.out = Transition_replace_action(t, action)]
    /\ UNCHANGED <<learner, obs, pre, steps, episodes, env, frame>>

\* t.drop_action()
DropAction ==
    /\ last.op = "new"
    /\ \E t \in AnyTransition :
        last' = [NoCall EXCEPT !.op = "drop_action", !.t = t,
                               !.out = Transition_drop_action(t)]
    /\ UNCHANGED <<learner, obs, pre, steps, episodes, env, frame>>

\* t.replace_reward(r)
ReplaceReward ==
    /\ last.op = "new"
    /\ \E t \in AnyTransition, r \in AnyReward :
        last' = [NoCall EXCEPT !.op = "replace_reward", !.t = t, !.arg = r,
                               !.out = Transition_replace_reward(t, r)]
    /\ UNCHANGED <<learner, obs, pre, steps, episodes, env, frame>>

\* t.negate_reward()
NegateReward ==
    /\ last.op = "new"
    /\ \E t \in AnyTransition :
        last' = [NoCall EXCEPT !.op = "negate_reward", !.t = t,
                               !.out = Transition_negate_reward(t)]
    /\ UNCHANGED <<learner, obs, pre, steps, episodes, env, frame>>

\* Shapes of rank 1 to 3 with extents up to MaxDim, and the test's shape.
Shapes ==
    UNION {[1..n -> 1..MaxDim] : n \in 1..3} \cup {TestDims}

\* Index tuples for a shape: every index up to the extent itself, one past
\* the last in-bounds value.
IndexTuples(dims) ==
    IF dims = TestDims
    THEN {<<3, 0, 0>>, <<2, 0, 5>>, <<2, 5, 5>>, <<0, 0, 11>>, <<5, 0, 11>>}
    ELSE {inds \in [1..Len(dims) -> 0..MaxDim] : \A k \in 1..Len(dims) : inds[k] <= dims[k]}

\* sub2ind(&dims, &inds)
Sub2ind ==
    /\ last.op = "new"
    /\ \E dims \in Shapes : \E inds \in IndexTuples(dims) :
        last' = [NoCall EXCEPT !.op = "sub2ind", !.arg = <<dims, inds>>,
                               !.out = sub2ind(dims, inds)]
    /\ UNCHANGED <<learner, obs, pre, steps, episodes, env, frame>>

InitPure ==
    /\ learner = Dirac_new(Zeros)
    /\ obs = Observation("Full", StartState)
    /\ pre = learner
    /\ last = NoCall
    /\ steps = 0
    /\ episodes = 0
    /\ env = NoEnv
    /\ frame = NoFrame

NextPure ==
    \/ ReplaceAction
    \/ DropAction
    \/ ReplaceReward
    \/ NegateReward
    \/ Sub2ind

SpecPure == InitPure /\ [][NextPure]_vars

\* ------------------------------------------------------------------------
\* The training layer (agents/training): one episode of Env driven by a
\* trader and, in the zero-sum and adversary settings, by an adversary
\* that sets the drift of the price
\* ------------------------------------------------------------------------

\* Trader and Adversary are TDAC learners over a TD critic.  Each is kept
\* as the calls it has received, oldest first, with the calls it forwarded
\* to its critic.
Call(op, t) == [op |-> op, t |-> t]

\* The transition slot of a call that takes none, in the shape of Env's
\* transitions: observations of (time, inventory) and a pair of quotes.
NoStep == Transition(Observation("Full", <<R(0), R(0)>>), <<R(0), R(0)>>, R(0),
                     Observation("Full", <<R(0), R(0)>>))

Agent_new == [calls |-> <<>>, critic |-> [calls |-> <<>>]]

\* critic.handle_transition(&t) on the TD critic of an agent.
Critic_handle_transition(self, t) ==
    [self EXCEPT !.critic.calls = Append(@, Call("handle_transition", t))]

\* TDAC::handle_transition(&t): the critic handles t once.
Agent_handle_transition(self, t) ==
    [self EXCEPT !.calls = Append(@, Call("handle_transition", t)),
                 !.critic.calls = Append(@, Call("handle_transition", t))]

\* TDAC::handle_terminal(): forwarded to the critic.
Agent_handle_terminal(self) ==
    [self EXCEPT !.calls = Append(@, Call("handle_terminal", NoStep)),
                 !.critic.calls = Append(@, Call("handle_terminal", NoStep))]

TrainFns == {"trader::train_value_function", "trader::train_trader_once",
             "zero_sum::train_value_functions", "zero_sum::train_agents_once",
             "adversary::train_value_function", "adversary::train_adversary_once"}

EvaluateFns == {"trader::evaluate_trader_once", "zero_sum::evaluate_agents_once",
                "adversary::evaluate_adversary_once"}

\* The functions that write env.dynamics.price_dynamics.drift before each
\* step.
SetsDrift(fn) == fn \notin {"trader::train_value_function",
                           "trader::train_trader_once",
                           "trader::evaluate_trader_once"}

\* env.dynamics.price_dynamics.drift = MAX_DRIFT * (2.0 * drift - 1.0)
Episode_set_drift(fn, e, drift) ==
    IF SetsDrift(fn)
    THEN [e EXCEPT !.dynamics.price_dynamics.drift =
                        RMul(MAX_DRIFT, RSub(RMul(R(2), drift), R(1)))]
    ELSE e

\* The handle_transition calls of one loop iteration on the transition t
\* that env.step(tta(quotes)) returned.
Episode_deliver(fn, agents, t, quotes, drift) ==
    CASE fn = "trader::train_value_function" ->
            \* trader.critic.handle_transition(&t.clone().replace_action(quotes));
            [agents EXCEPT !.trader = Critic_handle_transition(@,
                                        Transition_replace_action(t, quotes))]
      [] fn = "trader::train_trader_once" ->
            \* let t = env.step(tta(quotes)).replace_action(quotes);
            \* trader.handle_transition(&t);
            [agents EXCEPT !.trader = Agent_handle_transition(@,
                                        Transition_replace_action(t, quotes))]
      [] fn = "zero_sum::train_value_functions" ->
            [agents EXCEPT
                !.trader = Critic_handle_transition(@,
                                Transition_replace_action(t, quotes)),
                !.adversary = Critic_handle_transition(@,
                                Transition_negate_reward(
                                    Transition_replace_action(t, drift)))]
      [] fn = "zero_sum::train_agents_once" ->
            [agents EXCEPT
                !.trader = Agent_handle_transition(@,
                                Transition_replace_action(t, quotes)),
                !.adversary = Agent_handle_transition(@,
                                Transition_negate_reward(
                                    Transition_replace_action(t, drift)))]
      [] fn = "adversary::train_value_function" ->
            [agents EXCEPT
                !.adversary = Critic_handle_transition(@,
                                Transition_negate_reward(
                                    Transition_replace_action(t, drift)))]
      [] fn = "adversary::train_adversary_once" ->
            [agents EXCEPT
                !.adversary = Agent_handle_transition(@,
                                Transition_negate_reward(
                                    Transition_replace_action(t, drift)))]
      [] OTHER -> agents

\* The calls after the loop of a training function.
Episode_finish(fn, agents) ==
    CASE fn = "trader::train_trader_once" ->
            [agents EXCEPT !.trader = Agent_handle_terminal(@)]
      [] fn \in {"zero_sum::train_agents_once", "adversary::train_adversary_once"} ->
            [agents EXCEPT !.trader = Agent_handle_terminal(@),
                           !.adversary = Agent_handle_terminal(@)]
      [] OTHER -> agents

\* sum / i as f64: the quotient, or NaN when nothing was counted.
Average(sum, i) == IF i = 0 THEN "NaN" ELSE RDiv(sum, R(i))

\* The tuple an evaluation function returns on the terminated transition.
Episode_result(fn, f, e) ==
    CASE fn = "trader::evaluate_trader_once" ->
            <<e.wealth, Average(f.spread_sum, f.i), f.reward_sum, e.inv_terminal>>
      [] fn = "zero_sum::evaluate_agents_once" ->
            <<e.wealth, Average(f.drift_sum, f.i), Average(f.spread_sum, f.i),
              f.reward_sum, e.inv_terminal>>
      [] fn = "adversary::evaluate_adversary_once" ->
            <<e.wealth, Average(f.drift_sum, f.i), f.reward_sum, e.inv_terminal>>
      [] OTHER -> <<>>

\* Variant: the loop runs on until the episode has produced a transition
\* out of a terminal observation.
Episode_iterate_past_the_end(fn, f, e, t, quotes, drift) ==
    IF Observation_is_terminal(t.from)
    THEN [f EXCEPT !.pc = IF fn \in TrainFns THEN "exited" ELSE "returned"]
    ELSE [f EXCEPT !.quotes = quotes,
                   !.drift = IF SetsDrift(fn) THEN drift ELSE @]

\* The rest of one loop iteration after the handle_transition calls: the
\* sums of the evaluation functions, then break or return on a terminated
\* transition, else the next quotes and drift sampled from the policies.
Episode_iterate(fn, f, e, t, quotes, drift) ==
    LET counted ==
            IF fn \in EvaluateFns
            THEN [f EXCEPT
                    !.reward_sum = RAdd(@, t.reward),
                    !.drift_sum = IF SetsDrift(fn) THEN RAdd(@, f.drift) ELSE @,
                    !.i = IF fn = "adversary::evaluate_adversary_once" THEN @ + 1 ELSE @]
            ELSE f
    IN  IF Transition_terminated(t)
        THEN IF fn \in TrainFns
             THEN [counted EXCEPT !.pc = "exited"]
             ELSE [counted EXCEPT !.pc = "returned",
                                  !.result = Episode_result(fn, counted, e)]
        ELSE [counted EXCEPT
                !.quotes = quotes,
                !.drift = IF SetsDrift(fn) THEN drift ELSE @,
                !.i = IF fn \in {"trader::evaluate_trader_once",
                                 "zero_sum::evaluate_agents_once"}
                      THEN @ + 1 ELSE @,
                !.spread_sum = IF fn \in {"trader::evaluate_trader_once",
                                          "zero_sum::evaluate_agents_once"}
                               THEN RAdd(@, RMul(quotes[2], R(2))) ELSE @]

\* The locals of an episode function on entry to its loop.
Frame_new(fn, quotes, drift, samples) ==
    [fn |-> fn, pc |-> "loop", quotes |-> quotes, drift |-> drift,
     i |-> 0, reward_sum |-> R(0), drift_sum |-> R(0),
     spread_sum |-> IF fn \in {"trader::evaluate_trader_once",
                               "zero_sum::evaluate_agents_once"}
                    THEN RMul(quotes[2], R(2)) ELSE R(0),
     result |-> <<>>, samples |-> samples]

\* Draws of StandardNormal: one stands for all where the volatility is zero.
Noise(price_dynamics) ==
    IF price_dynamics.volatility = R(0) THEN {R(0)} ELSE {R(-1), R(1)}

\* What the policies of the agents can sample: (reservation price offset,
\* half spread) for the trader, a number in (0, 1) for the adversary.
ActiveSamples == [quotes |-> {<<R(0), Frac(1, 2)>>, <<Frac(1, 2), Frac(1, 2)>>},
                  drift |-> {Frac(2, 5), Frac(3, 5)}]

\* A trader that always quotes at the mid price.
MidSamples == [quotes |-> {<<R(0), R(0)>>}, drift |-> {Frac(1, 2)}]

\* Environments: the price dynamics keep their own dt, here 1.
ShortEnv == Env_new(ASDynamics_new(Frac(1, ShortEpisode), R(100),
                                   BrownianMotion_new(R(1), R(1)),
                                   PoissonRate_default))

ShortEnvWithDrift == Env_new(ASDynamics_new(Frac(1, ShortEpisode), R(100),
                                            BrownianMotionWithDrift_new(R(1), R(0), R(0)),
                                            PoissonRate_default))

LongEnv == Env_new(ASDynamics_new(Frac(1, LongEpisode), R(100),
                                  BrownianMotion_new(R(1), R(0)),
                                  PoissonRate_default))

\* One iteration of the loop of the episode function fn: env.step, the
\* handle_transition calls, then break, return or the next samples.
EpisodeStep(fn) ==
    /\ frame.fn = fn
    /\ frame.pc = "loop"
    /\ \E driven \in {Episode_set_drift(fn, env, frame.drift)} :
       \E action \in {tta(frame.quotes)} :
       \E draw \in StepDraws(driven, action, Noise(driven.dynamics.price_dynamics)) :
       \E stepped \in {Env_step(driven, action, draw[1], draw[2])} :
       \E quotes \in frame.samples.quotes : \E drift \in frame.samples.drift :
            /\ env' = stepped.env
            /\ learner' = Episode_deliver(fn, learner, stepped.t, frame.quotes, frame.drift)
            /\ frame' = Episode_iterate(fn, frame, stepped.env, stepped.t, quotes, drift)
            /\ last' = [NoCall EXCEPT !.op = "step", !.t = stepped.t]
            /\ obs' = stepped.t.to
    /\ pre' = learner
    /\ steps' = steps + 1
    /\ UNCHANGED episodes

\* What follows the loop of a training function, up to its return.
EpisodeReturn(fn) ==
    /\ frame.fn = fn
    /\ frame.pc = "exited"
    /\ learner' = Episode_finish(fn, learner)
    /\ frame' = [frame EXCEPT !.pc = "returned"]
    /\ last' = [NoCall EXCEPT !.op = "return", !.t = NoStep]
    /\ pre' = learner
    /\ episodes' = episodes + 1
    /\ UNCHANGED <<obs, steps, env>>

TraderTrainValueFunction ==
    EpisodeStep("trader::train_value_function") \/ EpisodeReturn("trader::train_value_function")
TrainTraderOnce ==
    EpisodeStep("trader::train_trader_once") \/ EpisodeReturn("trader::train_trader_once")
EvaluateTraderOnce == EpisodeStep("trader::evaluate_trader_once")
TrainValueFunctions ==
    EpisodeStep("zero_sum::train_value_functions") \/ EpisodeReturn("zero_sum::train_value_functions")
TrainAgentsOnce ==
    EpisodeStep("zero_sum::train_agents_once") \/ EpisodeReturn("zero_sum::train_agents_once")
EvaluateAgentsOnce == EpisodeStep("zero_sum::evaluate_agents_once")
AdversaryTrainValueFunction ==
    EpisodeStep("adversary::train_value_function") \/ EpisodeReturn("adversary::train_value_function")
TrainAdversaryOnce ==
    EpisodeStep("adversary::train_adversary_once") \/ EpisodeReturn("adversary::train_adversary_once")
EvaluateAdversaryOnce == EpisodeStep("adversary::evaluate_adversary_once")

\* The episode function, its environment and the first samples
\* (sample_behaviour or sample_target on env.emit().state()).
EpisodeSetups ==
    {[fn |-> fn, env |-> IF SetsDrift(fn) THEN ShortEnvWithDrift ELSE ShortEnv,
      samples |-> ActiveSamples] : fn \in TrainFns \cup EvaluateFns}
    \cup {[fn |-> "trader::evaluate_trader_once", env |-> LongEnv,
           samples |-> MidSamples]}

InitEpisode ==
    /\ \E setup \in EpisodeSetups :
       \E quotes \in setup.samples.quotes : \E drift \in setup.samples.drift :
        /\ env = setup.env
        /\ frame = Frame_new(setup.fn, quotes,
                             IF SetsDrift(setup.fn) THEN drift ELSE R(0),
                             setup.samples)
    /\ learner = [kind |-> "Agents", trader |-> Agent_new, adversary |-> Agent_new]
    /\ obs = Env_emit(env)
    /\ pre = learner
    /\ last = [NoCall EXCEPT !.t = NoStep]
    /\ steps = 0
    /\ episodes = 0

NextEpisode ==
    \/ TraderTrainValueFunction
    \/ TrainTraderOnce
    \/ EvaluateTraderOnce
    \/ TrainValueFunctions
    \/ TrainAgentsOnce
    \/ EvaluateAgentsOnce
    \/ AdversaryTrainValueFunction
    \/ TrainAdversaryOnce
    \/ EvaluateAdversaryOnce

SpecEpisode == InitEpisode /\ [][NextEpisode]_vars

\* A step of an episode function that has not returned: a loop iteration
\* or the statements after the loop, each counted in steps or episodes.
EpisodeAdvances ==
    /\ frame.pc # "returned"
    /\ \/ steps' = steps + 1 /\ episodes' = episodes
       \/ steps' = steps /\ episodes' = episodes + 1

\* The episode functions are sequential code: while the function has not
\* returned, its next statement is carried out.
SpecEpisodeFair == SpecEpisode /\ WF_<<steps, episodes>>(EpisodeAdvances)

\* ------------------------------------------------------------------------
\* The borrows of the shared Q-function (core/algorithms.rs, control/td,
\* control/gtd): what each operation takes and drops, in program order
\* ------------------------------------------------------------------------

\* `call` takes a guard over `cell`, `inner` runs, the guard is dropped.
Borrowing(cell, mode, call, inner) ==
    <<[at |-> "taken", cell |-> cell, mode |-> mode, call |-> call]>>
        \o inner
        \o <<[at |-> "dropped", cell |-> cell, mode |-> mode, call |-> call]>>

\* A method of the approximator called through a Shared<Q> handle: the
\* handle is borrowed for the call and released when it returns.
Shared_borrow(call) == Borrowing("q_func", "borrow", call, <<>>)

Shared_borrow_mut(call) == Borrowing("q_func", "borrow_mut", call, <<>>)

\* Greedy<Q>::sample reads the Q-function through the policy's own handle.
Greedy_sample_borrows == Shared_borrow("target.sample")

\* predict_qsa: self.q_func.evaluate_index(&self.q_func.embed(s), a)
predict_qsa_borrows ==
    Shared_borrow("q_func.embed") \o Shared_borrow("q_func.evaluate_index")

\* predict_qs: self.q_func.evaluate(&self.q_func.embed(s))
predict_qs_borrows ==
    Shared_borrow("q_func.embed") \o Shared_borrow("q_func.evaluate")

\* Variant: the greedy action is sampled again once the weights are written.
QLearning_handle_transition_borrows_resampling(t) ==
    predict_qsa_borrows
        \o (IF Transition_terminated(t) THEN <<>>
            ELSE Greedy_sample_borrows \o predict_qsa_borrows)
        \o Shared_borrow("q_func.embed")
        \o Shared_borrow_mut("q_func.update_index")
        \o (IF Transition_terminated(t) THEN <<>> ELSE Greedy_sample_borrows)

QLearning_handle_transition_borrows(t) ==
    predict_qsa_borrows
        \o (IF Transition_terminated(t) THEN <<>>
            ELSE Greedy_sample_borrows \o predict_qsa_borrows)
        \o Shared_borrow("q_func.embed")
        \o Shared_borrow_mut("q_func.update_index")

PAL_handle_transition_borrows(t) ==
    Shared_borrow("q_func.embed")
        \o Shared_borrow("q_func.evaluate")
        \o (IF Transition_terminated(t) THEN <<>>
            ELSE predict_qs_borrows \o Greedy_sample_borrows \o Greedy_sample_borrows)
        \o Shared_borrow_mut("q_func.update_index")

\* fa_w is a field of the learner, reached through &mut self.
GreedyGQ_handle_transition_borrows(t) ==
    Borrowing("fa_w", "borrow", "fa_w.embed", <<>>)
        \o Borrowing("fa_w", "borrow", "fa_w.evaluate", <<>>)
        \o (IF Transition_terminated(t)
            THEN Shared_borrow("q_func.evaluate_index")
            ELSE Greedy_sample_borrows
                    \o Borrowing("fa_w", "borrow", "fa_w.embed", <<>>)
                    \o Shared_borrow("q_func.evaluate_index")
                    \o Shared_borrow("q_func.evaluate_index")
                    \o Shared_borrow("q_func.n_features"))
        \o Borrowing("fa_w", "borrow_mut", "fa_w.update", <<>>)
        \o Shared_borrow_mut("q_func.update_index")

\* Variant: the guard of the first read is still held when the handler
\* writes.
handle_transition_borrows_holding_the_read(kind, t) ==
    Borrowing("q_func", "borrow", "q_func.embed",
              Shared_borrow_mut("q_func.update_index"))

handle_transition_borrows(kind, t) ==
    CASE kind = "QLearning" -> QLearning_handle_transition_borrows(t)
      [] kind = "PAL" -> PAL_handle_transition_borrows(t)
      [] kind = "GreedyGQ" -> GreedyGQ_handle_transition_borrows(t)

\* OnlineLearner::handle_sequence, the default: one handle_transition after
\* the other.
RECURSIVE handle_sequence_borrows(_, _)
handle_sequence_borrows(kind, sequence) ==
    IF sequence = <<>> THEN <<>>
    ELSE handle_transition_borrows(kind, Head(sequence))
            \o handle_sequence_borrows(kind, Tail(sequence))

SharedOps == {"sample_target", "sample_behaviour", "predict_v", "predict_qs",
              "predict_qsa"}

\* The behaviour policy holds no handle to the Q-function; GreedyGQ's
\* predict_v is self.predict_qs(s).dot(&self.target_policy.probabilities(s)).
query_borrows(kind, op) ==
    CASE op = "sample_target" -> Greedy_sample_borrows
      [] op = "sample_behaviour" -> <<>>
      [] op = "predict_qs" -> predict_qs_borrows
      [] op = "predict_qsa" -> predict_qsa_borrows
      [] op = "predict_v" ->
            IF kind = "GreedyGQ"
            THEN predict_qs_borrows \o Shared_borrow("target_policy.probabilities")
            ELSE Greedy_sample_borrows \o predict_qsa_borrows

\* impl ... for Shared<T>: self.borrow_mut().op(..), the learner's own cell
\* borrowed for the whole call.
Shared_call(via, op, inner) ==
    IF via = "shared" THEN Borrowing("learner", "borrow_mut", op, inner) ELSE inner

\* RefCell: borrow_mut() panics while any guard over the cell is held,
\* borrow() while a borrow_mut guard is.
BorrowRefused(live, e) ==
    \E k \in 1..Len(live) :
        /\ live[k].cell = e.cell
        /\ (e.mode = "borrow_mut" \/ live[k].mode = "borrow_mut")

RECURSIVE BorrowPanics(_, _)
BorrowPanics(events, live) ==
    IF events = <<>> THEN FALSE
    ELSE LET e == Head(events) IN
         IF e.at = "taken"
         THEN BorrowRefused(live, e) \/ BorrowPanics(Tail(events), Append(live, e))
         ELSE BorrowPanics(Tail(events), SubSeq(live, 1, Len(live) - 1))

\* The record of a call with the borrows it made.
Borrowed(op, via, events) ==
    [NoCall EXCEPT !.op = op, !.via = via, !.calls = events,
                   !.panicked = BorrowPanics(events, <<>>)]

SharedKinds == {"QLearning", "PAL", "GreedyGQ"}

\* learner.handle_transition(&t), directly or through a Shared<T> wrapper.
BorrowsInTransition ==
    /\ steps < MaxSteps
    /\ ~last.panicked
    /\ \E t \in TransitionsFrom(obs) : \E c \in Choices(learner, t) :
       \E via \in {"direct", "shared"} :
        /\ learner' = IF via = "shared" THEN Shared_handle_transition(learner, t, c)
                      ELSE handle_transition(learner, t, c)
        /\ last' = [Borrowed("handle_transition", via,
                        Shared_call(via, "handle_transition",
                                    handle_transition_borrows(learner.kind, t)))
                    EXCEPT !.t = t, !.c = c]
        /\ obs' = t.to
    /\ pre' = learner
    /\ steps' = steps + 1
    /\ UNCHANGED <<episodes, env, frame>>

\* learner.handle_sequence(&ts), directly or through a Shared<T> wrapper.
BorrowsInSequence ==
    /\ EpisodeStart
    /\ ~last.panicked
    /\ \E n \in 0..(MaxSteps - steps) : \E r \in Runs(learner, obs, n) :
       \E via \in {"direct", "shared"} :
        /\ learner' = IF via = "shared"
                      THEN Shared_handle_sequence(learner, r.ts, r.cs)
                      ELSE OnlineLearner_handle_sequence(learner, r.ts, r.cs)
        /\ last' = [Borrowed("handle_sequence", via,
                        Shared_call(via, "handle_sequence",
                                    handle_sequence_borrows(learner.kind, r.ts)))
                    EXCEPT !.ts = r.ts, !.cs = r.cs]
        /\ obs' = IF n = 0 THEN obs ELSE r.ts[n].to
        /\ steps' = steps + n
    /\ pre' = learner
    /\ UNCHANGED <<episodes, env, frame>>

\* sample_target, sample_behaviour, predict_v, predict_qs or predict_qsa
\* between two training calls.
BorrowsInQuery ==
    /\ ~last.panicked
    /\ last.op \notin SharedOps
    /\ \E op \in SharedOps : \E via \in {"direct", "shared"} :
        last' = Borrowed(op, via, Shared_call(via, op, query_borrows(learner.kind, op)))
    /\ pre' = learner
    /\ UNCHANGED <<learner, obs, steps, episodes, env, frame>>

\* learner.handle_terminal(): no approximator is touched.
BorrowsInTerminal ==
    /\ episodes < MaxEpisodes
    /\ ~last.panicked
    /\ \E via \in {"direct", "shared"} :
        last' = Borrowed("handle_terminal", via,
                         Shared_call(via, "handle_terminal", <<>>))
    /\ learner' = handle_terminal(learner)
    /\ obs' = Observation("Full", StartState)
    /\ pre' = learner
    /\ episodes' = episodes + 1
    /\ UNCHANGED <<steps, env, frame>>

InitBorrows ==
    /\ learner \in {QLearning_new(QSkew, Alpha0, Gamma0),
                    PAL_new(QSkew, Alpha0, Gamma0),
                    GreedyGQ_new(QSkew, Vec(R(1), R(1)), Alpha0, Beta0, Gamma0)}
    /\ obs = Observation("Full", StartState)
    /\ pre = learner
    /\ last = NoCall
    /\ steps = 0
    /\ episodes = 0
    /\ env = NoEnv
    /\ frame = NoFrame

NextBorrows ==
    \/ BorrowsInTransition
    \/ BorrowsInSequence
    \/ BorrowsInQuery
    \/ BorrowsInTerminal

SpecBorrows == InitBorrows /\ [][NextBorrows]_vars

\* ------------------------------------------------------------------------
\* Predictions that fail inside handle_transition: `.unwrap()` on the Err
\* of evaluate / evaluate_index panics and the handler is left at once
\* ------------------------------------------------------------------------

\* The unwrapped predictions of one handle_transition call, in program
\* order.
RequiredPredictions(kind, t) ==
    CASE kind = "QLearning" ->
            <<"predict_qsa(s, t.action)">>
                \o (IF Transition_terminated(t) THEN <<>> ELSE <<"predict_qsa(ns, na)">>)
      [] kind = "PAL" ->
            <<"q_func.evaluate(phi_s)">>
                \o (IF Transition_terminated(t) THEN <<>> ELSE <<"predict_qs(ns)">>)
      [] kind = "GreedyGQ" ->
            <<"fa_w.evaluate(phi_s)">>
                \o (IF Transition_terminated(t)
                    THEN <<"fa_q.evaluate_index(phi_s, t.action)">>
                    ELSE <<"fa_q.evaluate_index(phi_ns, na)",
                           "fa_q.evaluate_index(phi_s, t.action)">>)
      [] kind = "TOSARSALambda" ->
            <<"q_func.evaluate_index(phi_s, t.action)">>
                \o (IF Transition_terminated(t) THEN <<>>
                    ELSE <<"q_func.evaluate_index(phi_ns, na)">>)
      [] kind \in {"TDAC", "TDACLambda"} ->
            <<"critic.predict_v(s)">>
                \o (IF Transition_terminated(t) THEN <<>> ELSE <<"predict_v(t.to)">>)

\* TOSARSALambda::handle_transition up to its first unwrap: update_traces
\* has run; q_old and the weights are assigned after the last unwrap.
TOSARSALambda_handle_transition_unwinding(self, t) ==
    LET phi_s == embed(Observation_state(t.from))
        decay_rate == RMul(Parameter_value(self.trace.lambda), Parameter_value(self.gamma))
    IN  TOSARSALambda_update_traces(self, phi_s, decay_rate)

\* The learner as the handler leaves it when its k-th prediction fails.
\* QLearning, PAL and GreedyGQ assign nothing before their update calls,
\* TDAC and TDACLambda nothing before critic.handle_transition, and every
\* unwrap of theirs comes earlier.
handle_transition_unwinding(self, t, k) ==
    IF self.kind = "TOSARSALambda"
    THEN Aborted(TOSARSALambda_handle_transition_unwinding(self, t))
    ELSE Aborted(self)

AbortKinds == {"QLearning", "PAL", "GreedyGQ", "TOSARSALambda", "TDAC", "TDACLambda"}

\* learner.handle_transition(&t) whose k-th prediction returns Err; the
\* panic ends the run.
FailedPrediction ==
    /\ ~last.panicked
    /\ steps < MaxSteps
    /\ \E t \in TransitionsFrom(obs) :
       \E k \in 1..Len(RequiredPredictions(learner.kind, t)) :
        LET out == handle_transition_unwinding(learner, t, k) IN
        /\ learner' = out.self
        /\ last' = [NoCall EXCEPT !.op = "handle_transition", !.t = t,
                                  !.panicked = out.panicked,
                                  !.arg = <<RequiredPredictions(learner.kind, t)[k]>>]
        /\ obs' = t.to
    /\ pre' = learner
    /\ steps' = steps + 1
    /\ UNCHANGED <<episodes, env, frame>>

\* A handle_transition whose predictions all succeed.
SucceededPredictions ==
    /\ ~last.panicked
    /\ \E kind \in AbortKinds : HandleTransition(kind)

InitAborts ==
    /\ learner \in {l \in InitLearners : l.kind \in AbortKinds}
    /\ obs = Observation("Full", StartState)
    /\ pre = learner
    /\ last = NoCall
    /\ steps = 0
    /\ episodes = 0
    /\ env = NoEnv
    /\ frame = NoFrame

NextAborts ==
    \/ FailedPrediction
    \/ SucceededPredictions

SpecAborts == InitAborts /\ [][NextAborts]_vars

\* ------------------------------------------------------------------------
\* PAL over Q-values that are tied, apart, or nearly tied
\* ------------------------------------------------------------------------

\* Q(s, .) = (0, 2^-24) in both states: the two values differ by less than
\* the 1e-7 of argmaxima.
QNear == <<Zeros, Vec(Frac(1, 16777216), R(0))>>

InitPAL ==
    /\ learner \in {PAL_new(QZero, Alpha0, Gamma0),
                    PAL_new(QSkew, Alpha0, Gamma0),
                    PAL_new(QNear, Parameter_fixed(R(1)), Parameter_fixed(R(1)))}
    /\ obs = Observation("Full", StartState)
    /\ pre = learner
    /\ last = NoCall
    /\ steps = 0
    /\ episodes = 0
    /\ env = NoEnv
    /\ frame = NoFrame

NextPAL ==
    \/ PALTransition
    \/ HandleTerminal

SpecPAL == InitPAL /\ [][NextPAL]_vars

\* Episodes fed to the learner as whole slices through handle_sequence.
NextSequence ==
    \/ HandleSequence
    \/ HandleTerminal

SpecSequence == Init /\ [][NextSequence]_vars


\* ------------------------------------------------------------------------
\* Properties
\* ------------------------------------------------------------------------

\* The last call was handle_transition on a learner of the given kind.
Handled(kind) == last.op = "handle_transition" /\ pre.kind = kind

\* Q(x, b) as a learner l holds it, from its weights.
QOf(l, x, b) ==
    IF l.kind = "TOSARSALambda" THEN Dot(l.q_func[b], embed(x))
    ELSE Dot(l.cells[1][b], embed(x))

\* max over b of Q(x, b) as l holds it.
MaxQ(l, x) ==
    CHOOSE v \in {QOf(l, x, b) : b \in Actions} :
        \A b \in Actions : RLe(QOf(l, x, b), v)

\* C1: QLearning.handle_transition uses residual = reward - Q(s,a) on a
\* terminated transition and reward + gamma * max_b Q(s',b) - Q(s,a)
\* otherwise, Q taken under the weights before the call, and adds
\* alpha * residual * phi(s) to the weights of action a only.  With weight 0
\* on a unit feature, alpha = 0.1, gamma = 0.9 and reward 1 the weight
\* becomes 0.1 on a terminated transition and 0.28 on a non-terminated one
\* whose max_b Q(s',b) is 2.
C1_QLearningResidual ==
    Handled("QLearning") =>
        LET t == last.t
            s == t.from.state
            a == t.action
            alpha == Parameter_value(pre.alpha)
            gamma == Parameter_value(pre.gamma)
            residual ==
                IF t.to.tag = "Terminal"
                THEN RSub(t.reward, QOf(pre, s, a))
                ELSE RSub(RAdd(t.reward, RMul(gamma, MaxQ(pre, t.to.state))),
                          QOf(pre, s, a))
            textbook ==
                /\ alpha = Frac(1, 10)
                /\ gamma = Frac(9, 10)
                /\ t.reward = R(1)
                /\ embed(s) = Vec(R(1), R(0))
                /\ pre.cells[1][a][1] = R(0)
        IN  /\ last.error = residual
            /\ t.to.tag # "Terminal" => QOf(pre, t.to.state, last.c.na) = MaxQ(pre, t.to.state)
            /\ learner.cells[1][a] =
                    VAdd(pre.cells[1][a], Scale(RMul(alpha, residual), embed(s)))
            /\ \A b \in Actions \ {a} : learner.cells[1][b] = pre.cells[1][b]
            /\ (textbook /\ t.to.tag = "Terminal") =>
                    learner.cells[1][a][1] = Frac(1, 10)
            /\ (textbook /\ t.to.tag # "Terminal" /\ MaxQ(pre, t.to.state) = R(2)) =>
                    learner.cells[1][a][1] = Frac(28, 100)

\* The non-terminated textbook step has been taken: the weight is 0.28.
C1_Witness ==
    /\ Handled("QLearning")
    /\ Parameter_value(pre.alpha) = Frac(1, 10)
    /\ Parameter_value(pre.gamma) = Frac(9, 10)
    /\ pre.cells[1][last.t.action][1] = R(0)
    /\ last.t.from.state = 0
    /\ last.t.to.tag = "Full"
    /\ MaxQ(pre, last.t.to.state) = R(2)
    /\ learner.cells[1][last.t.action][1] = Frac(7, 25)

\* The prediction at the from-state (and action) of t that learner l's
\* update is an error against.
Prediction(l, t) ==
    LET s == t.from.state IN
    CASE l.kind \in {"QLearning", "PAL", "GreedyGQ", "TOSARSALambda"} -> QOf(l, s, t.action)
      [] l.kind \in {"TDAC", "TDACLambda"} -> Dot(l.critic.v_func, embed(s))
      [] l.kind = "ExponentialTD" -> Dot(l.v_func, embed(s))
      [] l.kind = "VarianceTD" -> Dot(l.variance_estimator, embed(s))

\* C2: for QLearning, PAL, GreedyGQ, TOSARSALambda, TDAC, TDACLambda,
\* ExponentialTD and VarianceTD, the error handle_transition uses on a
\* terminated transition is reward - prediction at the from-state (and
\* action), with no next-state term and no discount factor.
C2_TerminatedErrorIsRewardMinusPrediction ==
    (last.op = "handle_transition" /\ last.t.to.tag = "Terminal") =>
        last.error = RSub(last.t.reward, Prediction(pre, last.t))

\* The Parameters learner l owns, the decay parameter of its trace included.
OwnedParameters(l) ==
    CASE l.kind \in {"QLearning", "PAL", "TDAC", "BaselineREINFORCE", "VarianceTD"} ->
            <<l.alpha, l.gamma>>
      [] l.kind = "GreedyGQ" -> <<l.alpha, l.beta, l.gamma>>
      [] l.kind = "TOSARSALambda" -> <<l.alpha, l.gamma, l.trace.lambda>>
      [] l.kind = "TDACLambda" -> <<l.alpha, l.gamma, l.lambda>>
      [] l.kind = "ExponentialTD" -> <<l.alpha, l.rho>>

\* Parameter p after exactly one tick of its own schedule.
OneTick(p) == IF p.kind = "Fixed" THEN p ELSE [p EXCEPT !.count = p.count + 1]

\* C3: after one handle_terminal() call every Parameter the algorithm owns
\* (alpha, beta, gamma, lambda, rho, the decay parameter of an owned trace)
\* is its own pre-call value advanced by exactly one schedule tick.
C3_TerminalStepsEveryParameterOnce ==
    last.op = "handle_terminal" =>
        \A i \in 1..Len(OwnedParameters(pre)) :
            /\ OwnedParameters(learner)[i] = OneTick(OwnedParameters(pre)[i])
            /\ Parameter_value(OwnedParameters(learner)[i]) =
                    Parameter_value(OneTick(OwnedParameters(pre)[i]))

\* C4: after handle_terminal() returns, the eligibility trace of TDACLambda
\* and of TOSARSALambda is the zero vector, whatever calls came before.
C4_TerminalClearsTraces ==
    last.op = "handle_terminal" =>
        /\ learner.kind = "TDACLambda" => learner.trace = Zeros
        /\ learner.kind = "TOSARSALambda" => learner.trace.eligibility = Zeros

\* The sub-algorithms learner l owns: policies, critic, baseline.
SubAlgorithms(l) ==
    CASE l.kind \in {"QLearning", "PAL"} -> <<l.policy, l.target>>
      [] l.kind = "GreedyGQ" -> <<l.target_policy, l.behaviour_policy>>
      [] l.kind = "TOSARSALambda" -> <<l.policy>>
      [] l.kind \in {"TDAC", "TDACLambda"} -> <<l.critic, l.policy>>
      [] l.kind = "BaselineREINFORCE" -> <<l.policy, l.baseline>>
      [] OTHER -> <<>>

\* C5: handle_terminal() of a composite algorithm forwards exactly one
\* handle_terminal() call to each sub-algorithm it owns (critic, behaviour
\* policy, target policy, baseline) besides stepping its own step size.
C5_TerminalForwardedToEverySubAlgorithm ==
    last.op = "handle_terminal" =>
        /\ learner.alpha = OneTick(pre.alpha)
        /\ \A i \in 1..Len(SubAlgorithms(pre)) :
                SubAlgorithms(learner)[i].terminals = SubAlgorithms(pre)[i].terminals + 1

\* Every Parameter held by learner l or by its critic or baseline.
AllParameters(l) ==
    OwnedParameters(l) \o
    (CASE l.kind \in {"TDAC", "TDACLambda"} -> <<l.critic.alpha, l.critic.gamma>>
       [] l.kind = "BaselineREINFORCE" -> <<l.baseline.alpha, l.baseline.gamma>>
       [] OTHER -> <<>>)

\* C6: handle_transition and BaselineREINFORCE.handle_batch leave every
\* Parameter (alpha, beta, gamma, lambda, rho) unchanged in value and in
\* schedule state, so between two handle_terminal() calls each Parameter is
\* constant.
C6_TransitionsLeaveParameters ==
    last.op \in {"handle_transition", "handle_batch"} =>
        /\ AllParameters(learner) = AllParameters(pre)
        /\ \A i \in 1..Len(AllParameters(pre)) :
                Parameter_value(AllParameters(learner)[i]) =
                    Parameter_value(AllParameters(pre)[i])

\* A call that changed the weights of a learner with annealed Parameters,
\* in the second episode.
C6_Witness ==
    /\ last.op \in {"handle_transition", "handle_batch"}
    /\ episodes = 1
    /\ learner # pre
    /\ pre.alpha.kind = "Exponential"
    /\ pre.alpha.count = 1

\* The learner after handle_transition has been called on ts[1], ..., ts[k]
\* in this order, starting from l.
RECURSIVE AfterCalls(_, _, _, _)
AfterCalls(l, ts, cs, k) ==
    IF k = 0 THEN l
    ELSE handle_transition(AfterCalls(l, ts, cs, k - 1), ts[k], cs[k])

\* C7: handle_sequence(ts), called on the learner or through Shared<T>,
\* leaves the learner in the state reached by calling handle_transition on
\* each element of ts in order, oldest first; for the empty sequence the
\* learner is unchanged.
C7_SequenceIsOrderedFold ==
    last.op = "handle_sequence" =>
        /\ learner = AfterCalls(pre, last.ts, last.cs, Len(last.ts))
        /\ last.ts = <<>> => learner = pre

\* A two-element sequence handled through Shared<T> whose order matters.
C7_Witness ==
    /\ last.op = "handle_sequence"
    /\ last.via = "shared"
    /\ Len(last.ts) = 2
    /\ learner # handle_transition(handle_transition(pre, last.ts[2], last.cs[2]),
                                   last.ts[1], last.cs[1])

\* C8: with d = gamma * lambda and phi = phi(s), TOSARSALambda's trace
\* update yields z' = d * z + (1 - alpha * d * (z . phi)) * phi, the dot
\* product taken with the trace z before decay; z = 0 gives z' = phi.  z' is
\* the trace the weight update uses, and the trace left behind by a
\* non-terminated transition.
C8_TraceUpdate ==
    Handled("TOSARSALambda") =>
        LET t == last.t
            a == t.action
            phi == embed(t.from.state)
            z == pre.trace.eligibility
            alpha == Parameter_value(pre.alpha)
            d == RMul(Parameter_value(pre.gamma), Parameter_value(pre.trace.lambda))
            z1 == VAdd(Scale(d, z),
                       Scale(RSub(R(1), RMul(RMul(alpha, d), Dot(z, phi))), phi))
        IN  /\ t.to.tag # "Terminal" => learner.trace.eligibility = z1
            /\ z = Zeros => z1 = phi
            /\ learner.q_func[a] =
                    VAdd(VAdd(pre.q_func[a], Scale(RMul(alpha, last.error), z1)),
                         Scale(RMul(alpha, RSub(pre.q_old, QOf(pre, t.from.state, a))), phi))

\* A trace update on a trace that is not zero and not orthogonal to phi(s).
C8_Witness ==
    /\ Handled("TOSARSALambda")
    /\ last.t.to.tag # "Terminal"
    /\ Dot(pre.trace.eligibility, embed(last.t.from.state)) # R(0)
    /\ RMul(Parameter_value(pre.gamma), Parameter_value(pre.trace.lambda)) # R(0)
    /\ learner.trace.eligibility # embed(last.t.from.state)

\* C9: on a non-terminated transition PAL uses
\* residual = max(al, td - alpha * (Q(s',a'*) - Q(s',a))) with
\* td = reward + gamma * Q(s',a'*) - Q(s,a), a'* = argmax Q(s',.),
\* al = td - alpha * (Q(s,a*) - Q(s,a)), a* = argmax Q(s,.), and adds
\* alpha * residual * phi(s) to the weights of action a.
C9_PALResidual ==
    (Handled("PAL") /\ last.t.to.tag # "Terminal") =>
        LET t == last.t
            s == t.from.state
            ns == t.to.state
            a == t.action
            alpha == Parameter_value(pre.alpha)
            gamma == Parameter_value(pre.gamma)
            td == RSub(RAdd(t.reward, RMul(gamma, MaxQ(pre, ns))), QOf(pre, s, a))
            al == RSub(td, RMul(alpha, RSub(MaxQ(pre, s), QOf(pre, s, a))))
            residual == RMax(al, RSub(td, RMul(alpha, RSub(MaxQ(pre, ns), QOf(pre, ns, a)))))
        IN  /\ last.error = residual
            /\ learner.cells[1][a] =
                    VAdd(pre.cells[1][a], Scale(RMul(alpha, residual), embed(s)))

\* C10: on a non-terminated transition GreedyGQ computes
\* residual = reward + gamma * Q(s',a_target) - Q(s,a) and
\* estimate = w . phi(s) from the weights before the call, adds
\* alpha * beta * (residual - estimate) * phi(s) to w and
\* alpha * (residual * phi(s) - estimate * gamma * phi(s')) to the primary
\* weights of action a; beta enters the w update only.
C10_GreedyGQUpdate ==
    (Handled("GreedyGQ") /\ last.t.to.tag # "Terminal") =>
        LET t == last.t
            a == t.action
            phi_s == embed(t.from.state)
            phi_ns == embed(t.to.state)
            alpha == Parameter_value(pre.alpha)
            beta == Parameter_value(pre.beta)
            gamma == Parameter_value(pre.gamma)
            residual == RSub(RAdd(t.reward, RMul(gamma, MaxQ(pre, t.to.state))),
                             QOf(pre, t.from.state, a))
            estimate == Dot(pre.fa_w, phi_s)
            other_beta == [pre EXCEPT !.beta = Parameter_fixed(R(3))]
        IN  /\ last.error = residual
            /\ learner.fa_w =
                    VAdd(pre.fa_w, Scale(RMul(RMul(alpha, beta), RSub(residual, estimate)),
                                         phi_s))
            /\ learner.cells[1][a] =
                    VAdd(pre.cells[1][a],
                         Scale(alpha, VSub(Scale(residual, phi_s),
                                           Scale(RMul(estimate, gamma), phi_ns))))
            /\ \A b \in Actions \ {a} : learner.cells[1][b] = pre.cells[1][b]
            /\ handle_transition(other_beta, t, last.c).cells = learner.cells
            /\ residual # estimate =>
                    handle_transition(other_beta, t, last.c).fa_w # learner.fa_w

\* A non-terminated GreedyGQ step with beta # 1 and a correction term that
\* is not zero.
C10_Witness ==
    /\ Handled("GreedyGQ")
    /\ last.t.to.tag # "Terminal"
    /\ Parameter_value(pre.beta) # R(1)
    /\ Dot(pre.fa_w, embed(last.t.from.state)) # R(0)
    /\ learner.fa_w # pre.fa_w
    /\ learner.cells # pre.cells


\* The discounted return of the transition at index i of a batch:
\* the sum over k >= i of gamma^(k - i) * reward_k.
RECURSIVE DiscountedReturn(_, _, _, _)
DiscountedReturn(ts, gamma, i, k) ==
    IF k > Len(ts) THEN R(0)
    ELSE RAdd(RMul(RPow(gamma, k - i), ts[k].reward),
              DiscountedReturn(ts, gamma, i, k + 1))

\* The policy after one update per transition from index i down to 1, each
\* toward alpha * (G_i - baseline(s_i, a_i)) with the given baseline.
RECURSIVE PolicyAfterReversePass(_, _, _, _)
PolicyAfterReversePass(l, baseline, ts, i) ==
    IF i > Len(ts) THEN l.policy
    ELSE LET s == Observation_state(ts[i].from)
             G == DiscountedReturn(ts, Parameter_value(l.gamma), i, i)
         IN  Policy_update(PolicyAfterReversePass(l, baseline, ts, i + 1),
                           s, ts[i].action,
                           RMul(Parameter_value(l.alpha),
                                RSub(G, Baseline_predict_qsa(baseline, s, ts[i].action))))

\* C11: BaselineREINFORCE.handle_batch hands the whole batch to the
\* baseline first, then updates the policy once per transition, last
\* transition first, toward alpha * (G_i - baseline(s_i, a_i)), where G_i is
\* the discounted sum of the rewards from index i on and the baseline is read
\* after it consumed the batch; batches of every length, 0 and 1 included,
\* are handled, and nothing else of the learner changes.
C11_BatchIsBaselineThenReversePass ==
    (last.op = "handle_batch") =>
        LET consumed == TD_handle_batch(pre.baseline, last.ts) IN
        /\ learner.baseline = consumed
        /\ Len(last.rets) = Len(last.ts)
        /\ \A j \in 1..Len(last.ts) :
              last.rets[j] = DiscountedReturn(last.ts, Parameter_value(pre.gamma),
                                              Len(last.ts) + 1 - j, Len(last.ts) + 1 - j)
        /\ learner.policy = PolicyAfterReversePass(pre, consumed, last.ts, 1)
        /\ learner.alpha = pre.alpha
        /\ learner.gamma = pre.gamma

\* A batch of full length whose baseline moved, under a discount below one.
C11_Witness ==
    /\ last.op = "handle_batch"
    /\ Len(last.ts) = MaxBatch
    /\ Parameter_value(pre.gamma) = Frac(1, 2)
    /\ learner.baseline # pre.baseline
    /\ learner.policy # pre.policy
    /\ learner.policy # PolicyAfterReversePass(pre, pre.baseline, last.ts, 1)

\* A batch of three transitions with rewards 1, 1, 1 under gamma = 1.
ThreeOnes ==
    /\ last.op = "handle_batch"
    /\ Len(last.ts) = 3
    /\ \A j \in 1..3 : last.ts[j].reward = R(1)
    /\ Parameter_value(pre.gamma) = R(1)

\* C12: for a batch of three transitions with rewards 1, 1, 1 and
\* gamma = 1, the returns passed to the policy updates, in the order the
\* updates are applied (last transition first), are 1, 2, 3; listed by
\* transition, oldest first, they are 3, 2, 1.
C12_ReturnsInAppliedOrder ==
    ThreeOnes =>
        /\ last.rets = <<R(1), R(2), R(3)>>
        /\ \A i \in 1..3 : DiscountedReturn(last.ts, R(1), i, i) = R(4 - i)

\* C12 as stated: in applied order the returns are 3, 2, 1.
C12_AsStated == ThreeOnes => last.rets = <<R(3), R(2), R(1)>>

C12_Witness == ThreeOnes /\ learner.policy # pre.policy


\* The learner's weights, traces, q_old and Parameters are all fields of
\* its record: a call changed none of them iff the record is unchanged.
ReadOnly == learner = pre

C14_DefaultsDelegateOrAbort ==
    (learner.kind \in {"ExponentialTD", "VarianceTD"}) =>
        /\ (last.op = "predict_qsa") =>
              /\ ~last.panicked
              /\ last.value = predict_v(pre, last.s, 1).value
              /\ \A a \in Actions : predict_qsa(pre, last.s, a).value = last.value
        /\ (last.op = "predict_qs") => last.panicked /\ last.value = <<>>
        /\ \A s \in States : predict_qs(learner, s).panicked

\* predict_qsa returned for the second action, on moved weights.
C14_Witness ==
    /\ learner.kind = "VarianceTD"
    /\ last.op = "predict_qsa"
    /\ last.a = 2
    /\ last.value # R(0)
    /\ steps > 0


\* The learners whose handle_transition discards update Results.
SwallowingKinds == {"QLearning", "PAL", "GreedyGQ", "TOSARSALambda",
                    "ExponentialTD", "VarianceTD"}

\* The learner a handle_transition call without any Err leaves behind.
AsUsual == handle_transition(pre, last.t, last.c)

\* TOSARSALambda's second update_index call: the correction at phi(s).
SecondUpdate(q_func) ==
    LET phi_s == embed(Observation_state(last.t.from))
    IN  Q_update_index(q_func, phi_s, last.t.action,
            RMul(Parameter_value(pre.alpha),
                 RSub(pre.q_old, Q_evaluate_index(pre.q_func, phi_s, last.t.action))))

\* C15: when an update / update_index call returns an error inside
\* handle_transition of QLearning, PAL, GreedyGQ, TOSARSALambda,
\* ExponentialTD or VarianceTD, the handler returns normally, the failed
\* call leaves the weights it was aimed at unchanged, every other update
\* call of the step is still made and takes effect, and a handle_transition
\* without errors, also one after a failed step, does what it always does.
C15_UpdateErrorsAreSwallowed ==
    (last.op = "handle_transition" /\ learner.kind \in SwallowingKinds) =>
        /\ ~last.panicked
        /\ last.calls = UpdateCalls(learner.kind)
        /\ Errs(last.oks) = 0 => learner = AsUsual
        /\ (Len(last.oks) = 1 /\ ~last.oks[1]) => learner = pre
        /\ learner.kind = "GreedyGQ" =>
              /\ learner.fa_w = IF last.oks[1] THEN AsUsual.fa_w ELSE pre.fa_w
              /\ learner.cells = IF last.oks[2] THEN AsUsual.cells ELSE pre.cells
        /\ learner.kind = "TOSARSALambda" =>
              /\ learner.trace = AsUsual.trace
              /\ learner.q_old = AsUsual.q_old
              /\ (~last.oks[1] /\ ~last.oks[2]) => learner.q_func = pre.q_func
              /\ (~last.oks[1] /\ last.oks[2]) => learner.q_func = SecondUpdate(pre.q_func)
              /\ (last.oks[1] /\ ~last.oks[2]) => SecondUpdate(learner.q_func) = AsUsual.q_func

\* GreedyGQ's first update call failed and its second one moved fa_q.
C15_Witness ==
    /\ last.op = "handle_transition"
    /\ learner.kind = "GreedyGQ"
    /\ last.oks = <<FALSE, TRUE>>
    /\ learner.fa_w = pre.fa_w
    /\ learner.cells # pre.cells
    /\ AsUsual.fa_w # pre.fa_w

\* C16 as stated: a composition that needs an unimplemented method fails
\* at construction, before the first handle_transition runs and before any
\* weight, trace or critic state has changed.
C16_MismatchFailsAtWiring ==
    (last.panicked /\ learner.kind \in {"TDAC", "TDACLambda"}) =>
        /\ last.op = "new"
        /\ steps = 0
        /\ learner \in InitFaultLearners

\* The learner's handle to its Q-function and its greedy target policy.
QHandle(l) == IF l.kind = "GreedyGQ" THEN l.fa_q ELSE l.q_func

GreedyTarget(l) == IF l.kind = "GreedyGQ" THEN l.target_policy ELSE l.target

\* The actions whose value in qs no other action's value exceeds.
Maximisers(qs) == {a \in Actions : \A b \in Actions : RLe(qs[b], qs[a])}

\* C17: in QLearning, PAL and GreedyGQ built with new(), the q_func handle
\* and the greedy target policy refer to one approximator: after any
\* sequence of handle_transition calls the Q-values the target maximises
\* over at a state are the values predict_qs returns for it, so
\* sample_target picks among the maxima of the weights just written.
C17_TargetSeesTheSameApproximator ==
    (learner.kind \in {"QLearning", "PAL", "GreedyGQ"}) =>
        /\ GreedyTarget(learner).q = QHandle(learner)
        /\ \A s \in States :
              /\ Q_evaluate(learner.cells[GreedyTarget(learner).q], embed(s))
                    = predict_qs(learner, s).value
              /\ Greedy_sample(learner.cells, GreedyTarget(learner), s)
                    = Maximisers(predict_qs(learner, s).value)

\* A transition moved the weights and, with them, the action the target
\* policy selects at some state.
C17_Witness ==
    /\ learner.kind = "QLearning"
    /\ last.op = "handle_transition"
    /\ learner.cells # pre.cells
    /\ \E s \in States :
          Greedy_sample(learner.cells, learner.target, s)
            # Greedy_sample(pre.cells, pre.target, s)

\* C18: replace_action, replace_reward, negate_reward and drop_action
\* return a transition with the original's from and to observations, hence
\* the same terminated(), and with every field but the replaced one equal
\* to the original's; negate_reward applied twice restores the reward; and
\* terminated() holds exactly when `to` is Terminal, not for Full or Partial.
C18_TransitionTransformsPreserve ==
    (last.op \in {"replace_action", "drop_action", "replace_reward", "negate_reward"}) =>
        LET t == last.t
            out == last.out IN
        /\ out.from = t.from
        /\ out.to = t.to
        /\ Transition_terminated(out) = Transition_terminated(t)
        /\ Transition_terminated(t) <=> t.to.tag = "Terminal"
        /\ t.to.tag \in {"Full", "Partial"} => ~Transition_terminated(out)
        /\ last.op = "replace_action" =>
              out.action = last.arg /\ out.reward = t.reward
        /\ last.op = "drop_action" =>
              out.action = <<>> /\ out.reward = t.reward
        /\ last.op = "replace_reward" =>
              out.reward = last.arg /\ out.action = t.action
        /\ last.op = "negate_reward" =>
              /\ out.action = t.action
              /\ out.reward = RSub(R(0), t.reward)
              /\ Transition_negate_reward(out) = t

\* A non-zero reward negated on a transition into a Partial observation.
C18_Witness ==
    /\ last.op = "negate_reward"
    /\ last.t.reward = Frac(1, 2)
    /\ last.out.reward = Frac(-1, 2)
    /\ last.t.to.tag = "Partial"
    /\ last.t.from.tag = "Terminal"

\* inds[k] + dims[k] * (inds[k + 1] + dims[k + 1] * (...)).
RECURSIVE ColumnMajor(_, _, _)
ColumnMajor(dims, inds, k) ==
    IF k = Len(inds) THEN inds[k]
    ELSE inds[k] + dims[k] * ColumnMajor(dims, inds, k + 1)

RECURSIVE Product(_)
Product(dims) == IF dims = <<>> THEN 1 ELSE Head(dims) * Product(Tail(dims))

InBounds(dims) ==
    {inds \in [1..Len(dims) -> 0..(MaxDim - 1)] : \A k \in 1..Len(dims) : inds[k] < dims[k]}

\* C19: for non-empty dims and inds of equal length, sub2ind returns the
\* column-major index inds[1] + dims[1] * (inds[2] + dims[2] * (...))
\* (202 for dims 5, 7, 12 and inds 2, 5, 5), and in-bounds index tuples map
\* one-to-one into 0 .. product(dims) - 1.
C19_Sub2indIsColumnMajor ==
    (last.op = "sub2ind") =>
        LET dims == last.arg[1]
            inds == last.arg[2] IN
        /\ last.out = ColumnMajor(dims, inds, 1)
        /\ (dims = TestDims /\ inds = <<2, 5, 5>>) => last.out = 202
        /\ (dims # TestDims /\ inds \in InBounds(dims)) =>
              /\ last.out \in 0..(Product(dims) - 1)
              /\ \A other \in InBounds(dims) :
                    other # inds => sub2ind(dims, other) # last.out
              /\ {sub2ind(dims, other) : other \in InBounds(dims)} = 0..(Product(dims) - 1)

\* The unit test's case.
C19_Witness ==
    /\ last.op = "sub2ind"
    /\ last.arg = <<TestDims, <<2, 5, 5>>>>
    /\ last.out = 202

\* C20 as stated: Dirac::update(s, a, error) on a zero-weight approximator
\* completes and moves the policy's action to error * a; afterwards
\* sample(s) returns that action, whose probability is 1, every other
\* action's 0.
C20_DiracUpdateMovesTheAction ==
    (last.op = "update" /\ pre = Dirac_new(Zeros)) =>
        LET moved == RMul(last.error, R(last.a)) IN
        /\ ~last.panicked
        /\ Dirac_mpa(learner, last.s) = moved
        /\ Dirac_probability(learner, last.s, moved) = R(1)
        /\ \A x \in {R(0), R(1), R(2)} \ {moved} :
              Dirac_probability(learner, last.s, x) = R(0)


\* ------------------------------------------------------------------------
\* C21
\* ------------------------------------------------------------------------

\* The learners of the training layer: the two agents and their critics.
TrainedLearners == {<<"trader", "agent">>, <<"trader", "critic">>,
                    <<"adversary", "agent">>, <<"adversary", "critic">>}

\* The calls a learner has received, oldest first.
CallsOf(agents, who) ==
    IF who[2] = "agent" THEN agents[who[1]].calls ELSE agents[who[1]].critic.calls

HandledTransitions(calls) ==
    \E i \in 1..Len(calls) : calls[i].op = "handle_transition"

\* One whole episode, in the environment's order, then handle_terminal once:
\* the transitions chain from the first observation (time 0) to the only
\* terminated one, and the single handle_terminal call is the last call.
WholeEpisodeThenTerminal(calls) ==
    LET n == Len(calls) IN
    /\ n >= 2
    /\ calls[n].op = "handle_terminal"
    /\ \A i \in 1..(n - 1) : calls[i].op = "handle_transition"
    /\ calls[1].t.from.state[1] = R(0)
    /\ \A i \in 1..(n - 2) : /\ ~Transition_terminated(calls[i].t)
                             /\ calls[i + 1].t.from = calls[i].t.to
    /\ Transition_terminated(calls[n - 1].t)

\* C21: when an episode-running function of the training layer has
\* returned, every learner that handled transitions of the episode has
\* received the whole episode in the environment's order, nothing after the
\* terminated transition, and then exactly one handle_terminal() call.
C21_EpisodeEndsWithOneTerminalCall ==
    (frame.fn \in TrainFns /\ frame.pc = "returned") =>
        \A who \in TrainedLearners :
            HandledTransitions(CallsOf(learner, who)) =>
                WholeEpisodeThenTerminal(CallsOf(learner, who))

\* ------------------------------------------------------------------------
\* C22
\* ------------------------------------------------------------------------

\* C22: one TOSARSALambda.handle_transition call, with z the trace after
\* its trace update, Q under the weights before the call and a' the action
\* sample_behaviour returned, adds alpha * (reward + gamma * Q(s',a') - Q_old)
\* * z and then alpha * (Q_old - Q(s,a)) * phi(s) to the weights of the
\* action taken, and leaves Q_old = Q(s',a') and the trace z.  On a
\* terminated transition the first step is alpha * (reward - Q_old) along z,
\* both with the values from before the reset, and the call leaves
\* Q_old = 0 and the zero trace.
C22_TrueOnlineUpdateAndReset ==
    Handled("TOSARSALambda") =>
        LET t == last.t
            a == t.action
            s == t.from.state
            phi == embed(s)
            alpha == Parameter_value(pre.alpha)
            gamma == Parameter_value(pre.gamma)
            d == RMul(Parameter_value(pre.trace.lambda), gamma)
            z == VAdd(Scale(d, pre.trace.eligibility),
                      Scale(RSub(R(1), RMul(RMul(alpha, d),
                                            Dot(pre.trace.eligibility, phi))), phi))
            q_old == pre.q_old
            qsa == QOf(pre, s, a)
            nqsna == QOf(pre, t.to.state, last.c.na)
            first == IF t.to.tag = "Terminal"
                     THEN RMul(alpha, RSub(t.reward, q_old))
                     ELSE RMul(alpha, RSub(RAdd(t.reward, RMul(gamma, nqsna)), q_old))
            second == RMul(alpha, RSub(q_old, qsa))
        IN  /\ learner.q_func[a] =
                    VAdd(VAdd(pre.q_func[a], Scale(first, z)), Scale(second, phi))
            /\ \A b \in Actions \ {a} : learner.q_func[b] = pre.q_func[b]
            /\ t.to.tag # "Terminal" =>
                    /\ learner.q_old = nqsna
                    /\ learner.trace.eligibility = z
            /\ t.to.tag = "Terminal" =>
                    /\ learner.q_old = R(0)
                    /\ learner.trace.eligibility = Zeros

\* A terminated transition handled with Q_old and the trace both non-zero,
\* whose two steps moved the weights.
C22_Witness ==
    /\ Handled("TOSARSALambda")
    /\ last.t.to.tag = "Terminal"
    /\ pre.q_old # R(0)
    /\ pre.trace.eligibility # Zeros
    /\ pre.q_old # QOf(pre, last.t.from.state, last.t.action)
    /\ learner.q_func # pre.q_func
    /\ learner.q_old = R(0)

\* ------------------------------------------------------------------------
\* C23
\* ------------------------------------------------------------------------

\* The TD error of the transition t under the value weights w and the
\* discount factor gamma.
TDErrorUnder(w, gamma, t) ==
    LET v == Dot(w, embed(t.from.state))
    IN  IF t.to.tag = "Terminal"
        THEN RSub(t.reward, v)
        ELSE RSub(RAdd(t.reward, RMul(gamma, Dot(w, embed(t.to.state)))), v)

\* The critic c after it handled t once.
CriticAfterOne(c, t) ==
    [c EXCEPT !.v_func =
        VAdd(@, Scale(RMul(Parameter_value(c.alpha),
                           TDErrorUnder(c.v_func, Parameter_value(c.gamma), t)),
                      embed(t.from.state)))]

\* C23: a handle_transition call on TDAC or TDACLambda takes the TD error
\* from the critic's predictions as they were before the call, leaves the
\* critic as one handle_transition of its own leaves it, and changes the
\* policy by one update: TDAC by update(s, a, alpha * td_error), TDACLambda
\* by update_raw(trace * alpha * td_error) with
\* trace = gamma * lambda * old trace + grad_log pi(a | s).
C23_ActorCriticStep ==
    (Handled("TDAC") \/ Handled("TDACLambda")) =>
        LET t == last.t
            s == t.from.state
            td_error == TDErrorUnder(pre.critic.v_func, Parameter_value(pre.gamma), t)
            step == RMul(Parameter_value(pre.alpha), td_error)
        IN  /\ learner.critic = CriticAfterOne(pre.critic, t)
            /\ pre.kind = "TDAC" =>
                    learner.policy = Policy_update(pre.policy, s, t.action, step)
            /\ pre.kind = "TDACLambda" =>
                    LET trace == VAdd(Scale(RMul(Parameter_value(pre.gamma),
                                                 Parameter_value(pre.lambda)),
                                            pre.trace),
                                      Policy_grad_log(pre.policy, s, t.action))
                    IN  /\ learner.trace = trace
                        /\ learner.policy = Policy_update_raw(pre.policy, Scale(step, trace))

\* A TDACLambda step on a trace that is not zero, with a TD error that the
\* critic's own update changes, moving both the critic and the policy.
C23_Witness ==
    /\ Handled("TDACLambda")
    /\ pre.trace # Zeros
    /\ learner.critic # pre.critic
    /\ learner.policy # pre.policy
    /\ TDErrorUnder(learner.critic.v_func, Parameter_value(pre.gamma), last.t)
            # TDErrorUnder(pre.critic.v_func, Parameter_value(pre.gamma), last.t)

\* ------------------------------------------------------------------------
\* C24
\* ------------------------------------------------------------------------

\* The variance estimator after one step on t against the meta-reward m:
\* alpha * (m - U(s)) if terminated, alpha * (m + gamma^2 * U(s') - U(s))
\* otherwise.
VarianceAfter(self, t, meta_reward) ==
    LET gamma == Parameter_value(self.gamma)
        u == self.variance_estimator
    IN  VAdd(u, Scale(RMul(Parameter_value(self.alpha),
                           TDErrorUnder(u, RMul(gamma, gamma),
                                        [t EXCEPT !.reward = meta_reward])),
                      embed(t.from.state)))

\* C24: a VarianceTD handle_transition call takes the square of the value
\* estimator's TD error (reward - V(s) if terminated, reward + gamma * V(s')
\* - V(s) otherwise) as meta-reward, moves the variance estimator by
\* alpha * (meta_reward - U(s)) if terminated and by
\* alpha * (meta_reward + gamma^2 * U(s') - U(s)) otherwise, and leaves the
\* value estimator's weights alone.
C24_VarianceOfOrdinaryTDError ==
    Handled("VarianceTD") =>
        LET value_error == TDErrorUnder(pre.value_estimator,
                                        Parameter_value(pre.gamma), last.t)
        IN  /\ learner.variance_estimator
                    = VarianceAfter(pre, last.t, RMul(value_error, value_error))
            /\ learner.value_estimator = pre.value_estimator

\* ------------------------------------------------------------------------
\* C25
\* ------------------------------------------------------------------------

\* The positions in the last call's borrows at which `mode` guards over the
\* shared Q-function are taken.
TakenAt(mode) ==
    {k \in 1..Len(last.calls) :
        /\ last.calls[k].at = "taken"
        /\ last.calls[k].cell = "q_func"
        /\ last.calls[k].mode = mode}

SamplesAt == {k \in TakenAt("borrow") : last.calls[k].call = "target.sample"}

HandledShared == last.op = "handle_transition" /\ pre.kind \in SharedKinds

\* C25 as stated: a handle_transition call on QLearning, PAL or GreedyGQ
\* writes the shared Q-function exactly once, on either branch, and its
\* sample_target reads come after that write.
C25_OneWriteThenReads ==
    HandledShared =>
        /\ Cardinality(TakenAt("borrow_mut")) = 1
        /\ \A w \in TakenAt("borrow_mut") : \A r \in SamplesAt : w < r

\* C25: a handle_transition call on QLearning, PAL or GreedyGQ writes the
\* shared Q-function exactly once, on either branch; every read of it in
\* the call, the sample_target reads among them, is over before the write
\* begins, and the non-terminal branch makes at least one such
\* sample_target read.
C25_ReadsThenOneWrite ==
    HandledShared =>
        /\ Cardinality(TakenAt("borrow_mut")) = 1
        /\ \A w \in TakenAt("borrow_mut") : \A r \in TakenAt("borrow") :
                r < w /\ last.calls[r + 1].at = "dropped"
        /\ ~Transition_terminated(last.t) => SamplesAt # {}
        /\ learner.cells[1] # pre.cells[1] =>
                \E a \in Actions : \A b \in Actions \ {a} :
                    learner.cells[1][b] = pre.cells[1][b]

\* A non-terminal PAL step through a Shared<T> wrapper that samples the
\* target twice and then changes the weights.
C25_Witness ==
    /\ HandledShared
    /\ pre.kind = "PAL"
    /\ last.via = "shared"
    /\ ~Transition_terminated(last.t)
    /\ Cardinality(SamplesAt) = 2
    /\ learner.cells # pre.cells

\* ------------------------------------------------------------------------
\* C26
\* ------------------------------------------------------------------------

\* The guards held once the first k events of the last call are over.
HeldAfter(k) ==
    Cardinality({j \in 1..k : last.calls[j].at = "taken"})
        - Cardinality({j \in 1..k : last.calls[j].at = "dropped"})

\* The guard taken at i is still held when the one at k is taken.
HeldAt(i, k) ==
    /\ i < k
    /\ last.calls[i].at = "taken"
    /\ last.calls[k].at = "taken"
    /\ \A j \in i..k : HeldAfter(j) >= HeldAfter(i)

\* C26: in no handle_transition, handle_sequence, sample_target,
\* sample_behaviour, predict_* or handle_terminal call on QLearning, PAL or
\* GreedyGQ, direct or through a Shared<T> wrapper, is a borrow_mut guard
\* held together with another guard over the same cell, and no call ends in
\* a borrow panic.
C26_SingleWriter ==
    /\ ~last.panicked
    /\ \A i, k \in 1..Len(last.calls) :
            HeldAt(i, k) /\ last.calls[i].cell = last.calls[k].cell =>
                last.calls[i].mode = "borrow" /\ last.calls[k].mode = "borrow"

\* A handle_sequence of two transitions through a Shared<T> wrapper: the
\* wrapper's guard over the learner is held while the Q-function is
\* written twice.
C26_Witness ==
    /\ last.op = "handle_sequence"
    /\ last.via = "shared"
    /\ Len(last.ts) = 2
    /\ pre.kind \in SharedKinds
    /\ Cardinality({k \in TakenAt("borrow_mut") : HeldAt(1, k)}) = 2
    /\ learner.cells # pre.cells

\* ------------------------------------------------------------------------
\* C27
\* ------------------------------------------------------------------------

\* C27: when a required prediction fails inside handle_transition of
\* QLearning, PAL, GreedyGQ, TOSARSALambda, TDAC or TDACLambda, the handler
\* aborts and the learner is as it was when the call started: no weight, no
\* eligibility trace, no q_old and no critic state has changed.
C27_FailedPredictionChangesNothing ==
    last.op = "handle_transition" /\ last.panicked /\ pre.kind \in AbortKinds =>
        learner = pre

\* ------------------------------------------------------------------------
\* C28
\* ------------------------------------------------------------------------

\* The clock of the environment has reached the end of the episode.
TimeIsUp == ~RLt(env.dynamics.time, R(1))

\* What every step of an episode leaves behind: the clock moved on by
\* dt > 0 whatever the quotes and the executions, the transition is
\* terminated exactly when the clock has reached 1, which is when
\* is_terminal() holds, and the loop is left exactly then; no step is taken
\* from a terminal observation, the steps taken so far account for the
\* whole time elapsed, and a function that has not returned has a next
\* statement to run.
EpisodeClock ==
    /\ RLt(R(0), env.dynamics.dt)
    /\ Env_is_terminal(env) <=> TimeIsUp
    /\ env.dynamics.time = RMul(R(steps), env.dynamics.dt)
    /\ IF frame.pc = "loop"
       THEN /\ ~TimeIsUp
            /\ frame.samples.quotes # {} /\ frame.samples.drift # {}
            /\ StepDraws(Episode_set_drift(frame.fn, env, frame.drift),
                         tta(frame.quotes),
                         Noise(env.dynamics.price_dynamics)) # {}
       ELSE /\ frame.pc \in {"exited", "returned"}
            /\ frame.pc = "exited" => frame.fn \in TrainFns
    /\ IF last.op = "step"
       THEN /\ last.t.to.state[1] = RAdd(last.t.from.state[1], env.dynamics.dt)
            /\ last.t.to.state[1] = env.dynamics.time
            /\ ~Observation_is_terminal(last.t.from)
            /\ Transition_terminated(last.t) <=> TimeIsUp
            /\ Transition_terminated(last.t) <=> frame.pc # "loop"
       ELSE TRUE

\* C28: every training or evaluation episode on Env terminates: each step
\* advances the clock by dt > 0 regardless of the action and of the
\* executions, is_terminal() holds once time >= 1, the first step reaching
\* it returns a terminated transition, every episode loop exits on the
\* first terminated transition, and the episode function returns.
C28_EpisodesTerminate ==
    /\ []EpisodeClock
    /\ <>(frame.pc = "returned")

\* train_trader_once has returned after an episode in whose last step the
\* ask was executed.
C28_Witness ==
    /\ frame.fn = "trader::train_trader_once"
    /\ frame.pc = "returned"
    /\ steps = ShortEpisode
    /\ env.ask_executed
    /\ TimeIsUp

\* ------------------------------------------------------------------------
\* C29
\* ------------------------------------------------------------------------

\* The mark-to-market value of the trader's position.
MarkToMarket(e) == RAdd(e.wealth, RMul(e.inv, e.dynamics.price))

\* The penalty on the inventory the episode ended with.
TerminalPenalty(e) == RMul(Frac(1, 2), RMul(e.inv_terminal, e.inv_terminal))

Executed(flag) == IF flag THEN R(1) ELSE R(0)

\* A step's reward is the change of the mark-to-market value over the
\* step, less the penalty on the inventory held just before liquidation
\* when the step ends the episode.
StepRewardIsValueChange ==
    last'.op = "step" =>
        LET change == RSub(MarkToMarket(env'), MarkToMarket(env))
            held == RAdd(RSub(env.inv, Executed(env'.ask_executed)),
                         Executed(env'.bid_executed))
        IN  /\ last'.t.reward = env'.reward
            /\ IF Env_is_terminal(env')
               THEN /\ env'.inv_terminal = held
                    /\ env'.inv = R(0)
                    /\ env'.reward = RSub(change, TerminalPenalty(env'))
               ELSE /\ env'.inv = held
                    /\ env'.reward = change

\* The inventory stays within INV_BOUNDS, and the rewards an evaluation
\* function has summed are the mark-to-market value, less the penalty once
\* the episode is over: the final wealth minus 0.5 * inv_terminal^2.
PositionAccounts ==
    /\ RLe(INV_BOUNDS[1], env.inv) /\ RLe(env.inv, INV_BOUNDS[2])
    /\ RLe(INV_BOUNDS[1], env.inv_terminal) /\ RLe(env.inv_terminal, INV_BOUNDS[2])
    /\ frame.fn \in EvaluateFns =>
        /\ ~Env_is_terminal(env) => frame.reward_sum = MarkToMarket(env)
        /\ Env_is_terminal(env) =>
                frame.reward_sum = RSub(env.wealth, TerminalPenalty(env))

\* C29: starting from wealth 0 and inventory 0, the reward of every
\* non-terminal step of Env is the change of wealth + inv * price over the
\* step, the reward of the terminal step is that change minus
\* 0.5 * inv^2 with inv the inventory just before liquidation (kept in
\* inv_terminal); the rewards of an episode sum to the final wealth minus
\* 0.5 * inv_terminal^2, and the inventory stays within [-50, 50].
C29_RewardIsMarkToMarket ==
    /\ [][StepRewardIsValueChange]_vars
    /\ []PositionAccounts

\* An evaluation episode that ended with inventory on the book after the
\* price had moved.
C29_Witness ==
    /\ frame.fn \in EvaluateFns
    /\ frame.pc = "returned"
    /\ env.inv_terminal # R(0)
    /\ env.dynamics.price # env.dynamics.price_initial
    /\ env.wealth # R(0)
    /\ frame.reward_sum # R(0)

\* ------------------------------------------------------------------------
\* C30
\* ------------------------------------------------------------------------

\* Q(x, b) under the weights the learner had when the call started.
QBefore(x, b) == Dot(pre.cells[1][b], embed(x))

====
